---- MODULE Spec2Model ----
(***************************************************************************)
(* Model of the pokebot monitoring engine (monitor/poller.ts) with its     *)
(* transition detector (monitor/state.ts), its bot-detection classifier    *)
(* (checkDetection) and the credential vault (encrypt, decrypt).           *)
(*                                                                         *)
(* The engine is one async function running on the single-threaded event   *)
(* loop.  An action of this model is one run-to-completion segment of the  *)
(* code: it starts where a pending await (or timer, or signal) resumes and *)
(* runs up to the next await.  pc names the await the poll flow is parked  *)
(* at, sd the await the shutdown handler is parked at, dg the await the    *)
(* digest callback is parked at.  The pure functions are applied by their  *)
(* own specifications, which record the arguments in call and the outcome  *)
(* in ret.                                                                 *)
(* Times are milliseconds, as in the code.                                 *)
(***************************************************************************)
EXTENDS Integers, Sequences, FiniteSets, TLC

VARIABLES
    config,             \* BotConfig: detection, monitoring and telegram sections
    running,            \* poller.ts:31
    browser,            \* poller.ts:32   "null" | "open" | "closed"
    context,            \* poller.ts:33
    page,               \* poller.ts:34
    cronTask,           \* poller.ts:35   "null" | "scheduled" | "stopped"
    stateMap,           \* poller.ts:38   url -> status, defined on the urls seen
    alertCooldowns,     \* poller.ts:39   url -> time of the last restock alert
    dailyRestocks,      \* poller.ts:42
    dailySoldOuts,      \* poller.ts:43
    dailyErrors,        \* poller.ts:44
    sessionId,          \* poller.ts:64   number of session ids drawn so far
    cycleCount,         \* poller.ts:145
    consecutiveFailures,\* poller.ts:146
    currentCooldownMs,  \* poller.ts:147
    pc,                 \* the await at which startMonitoring / pollCycle is parked
    idx,                \* position of the for-loop over monitoring.urls
    newStatus,          \* newState.status while the restock alert is being sent
    sd,                 \* progress of the shutdown handler
    now,                \* Date.now()
    history,            \* the history file: [url, transition] -> entries appended
    sent,               \* messages handed to sendTelegramMessage, by kind
    lastRestockAlertAt, \* per url, the time its last restock alert was sent (0: never)
    fetched,            \* urls whose page.goto was issued in the current cycle
    abortedAt,          \* position of the url that ended the current cycle, 0 if none
    streak,             \* handleDetectionEvent calls since the last clean fetch
    lastSleepMs,        \* duration of the last cooldown sleep started (0: none yet)
    seeded,             \* stateMap as the initial status pass left it
    fetchCount,         \* page.goto calls the poll loop has issued so far
    cdLog,              \* steps handleDetectionEvent has performed in its current call
    historyFile,        \* the history file: the StockEvents appended, in order
    liveContexts,       \* browser contexts created and not closed
    sdLog,              \* steps shutdown has performed
    dg,                 \* the await at which the digest callback is parked
    digests,            \* digest messages handed to sendTelegramMessage
    call,               \* arguments of the function call being examined
    ret,                \* what that call returned
    storeFile,          \* store.ts:14   the accounts file: its text and mode
    sessionFiles,       \* session.ts:22 account id -> that account's session file
    issued              \* store.ts:39   the ids randomUUID has given to accounts

vars == << config, running, browser, context, page, cronTask, stateMap,
           alertCooldowns, dailyRestocks, dailySoldOuts, dailyErrors, sessionId,
           cycleCount, consecutiveFailures, currentCooldownMs, pc, idx,
           newStatus, sd, now, history, sent, lastRestockAlertAt, fetched,
           abortedAt, streak, lastSleepMs, seeded, fetchCount, cdLog,
           historyFile, liveContexts, sdLog, dg, digests, call, ret,
           storeFile, sessionFiles, issued >>

digestVars == << dg, digests >>

storeVars == << storeFile, sessionFiles, issued >>

harnessVars == << call, ret, storeVars >>

engineVars ==
    << config, running, browser, context, page, cronTask, stateMap,
       alertCooldowns, dailyRestocks, dailySoldOuts, dailyErrors, sessionId,
       cycleCount, consecutiveFailures, currentCooldownMs, pc, idx,
       newStatus, sd, now, history, sent, lastRestockAlertAt, fetched,
       abortedAt, streak, lastSleepMs, seeded, fetchCount, cdLog,
       historyFile, liveContexts, sdLog, dg, digests >>

(***************************************************************************)
(* Bounds                                                                  *)
(***************************************************************************)
\* page.goto calls of the poll loop the model follows before it stops exploring
MaxFetches == 5

\* length, in UTF-16 code units, of the plaintexts given to the vault
MaxPlaintextLen == 3

(***************************************************************************)
(* Program constants                                                       *)
(***************************************************************************)
\* 30 * 60 * 1000
CooldownCapMs == 1800000
MinDelayMs == 5000

\* the period of the digest schedule '0 H * * *'
DayMs == 86400000

\* Date.now() when startMonitoring is entered (poller.ts:45)
StartTime == 1000000000

Min(a, b) == IF a < b THEN a ELSE b
Max(a, b) == IF a > b THEN a ELSE b

(***************************************************************************)
(* monitor/state.ts                                                        *)
(***************************************************************************)
StockStatus == {"in_stock", "out_of_stock", "pre_order", "coming_soon", "unknown"}

\* the absent previous state (stateMap.get(url) ?? null)
NoState == "null"

\* a StockState | null that is null
NullState == [null |-> TRUE]

\* the StockState fields the model keeps
StockStateOf(status, price, lastTransition) ==
    [status |-> status, price |-> price, lastTransition |-> lastTransition]

\* as isAvailable, but counting a pre-order as buyable
isAvailableOrPreOrder(status) == status \in {"in_stock", "pre_order"}

isAvailable(status) == status = "in_stock"

\* as detectTransition, but never reporting a restock without a previous state
detectTransitionNoFirst(previous, current) ==
    IF previous = NullState
    THEN "none"
    ELSE IF ~isAvailable(previous.status) /\ isAvailable(current.status)
         THEN "restock"
    ELSE IF isAvailable(previous.status) /\ ~isAvailable(current.status)
         THEN "sold_out"
    ELSE "none"

detectTransition(previous, current) ==
    IF previous = NullState
    THEN IF isAvailable(current.status) THEN "restock" ELSE "none"
    ELSE LET wasBuyable == isAvailable(previous.status)
             isBuyable == isAvailable(current.status)
         IN  IF ~wasBuyable /\ isBuyable THEN "restock"
             ELSE IF wasBuyable /\ ~isBuyable THEN "sold_out"
             ELSE "none"

(***************************************************************************)
(* Inputs                                                                  *)
(***************************************************************************)
\* statuses the watched pages show during a run
ObservedStatus == {"in_stock", "out_of_stock", "unknown"}

\* config.detection; validateConfig accepts cooldownMs > 0 and maxRetries >= 0
validateDetection(d) == ~(d.cooldownMs <= 0 \/ d.maxRetries < 0)

\* DEFAULT_CONFIG.detection of config.ts
DefaultDetection == [cooldownMs |-> 300000, maxRetries |-> 3]

\* detection sections tried besides the default: one that backs off from the
\* first failure, one whose base is above the cap, and two that validation
\* rejects
DetectionConfigs ==
    { d \in { [cooldownMs |-> 300000,  maxRetries |-> 0],
              [cooldownMs |-> 2100000, maxRetries |-> 1],
              [cooldownMs |-> 0,       maxRetries |-> 1],
              [cooldownMs |-> 300000,  maxRetries |-> 0 - 1] } :
        validateDetection(d) }

MonitoringWith(urlList) ==
    [urls |-> urlList, contextRotationCycles |-> 2,
     basePollIntervalMs |-> 30000, jitterMs |-> 0]

\* four poll delays: a second restock of a url after two clean cycles of two
\* urls falls exactly on the edge of the window
TelegramConfigs == { [alertCooldownMs |-> 120000] }

\* poll timings in which the 5 s floor matters: always, for some draws, never
TimedMonitoring(urlList) ==
    { [urls |-> urlList, contextRotationCycles |-> 2,
       basePollIntervalMs |-> t[1], jitterMs |-> t[2]] :
          t \in { << 3000, 1000 >>, << 4500, 1000 >> } }

\* values of (Math.random() * 2 - 1) * jitterMs the model draws; Math.random()
\* is below 1, so +jitterMs itself is never drawn
JitterSamples(jitterMs) == {0 - jitterMs, 0, Max(0, jitterMs - 1)}

\* as PollDelay, but without the floor
PollDelayNoFloor(baseMs, jitter) == baseMs + jitter

\* poller.ts:169
PollDelay(baseMs, jitter) == Max(MinDelayMs, baseMs + jitter)

urls == config.monitoring.urls
NumUrls == Len(urls)
Urls == {urls[i] : i \in 1..NumUrls}

(***************************************************************************)
(* Helpers for Map and the message / history tallies                       *)
(***************************************************************************)
MapSet(m, k, v) == [x \in DOMAIN m \cup {k} |-> IF x = k THEN v ELSE m[x]]
MapGet(m, k, default) == IF k \in DOMAIN m THEN m[k] ELSE default

EmptyMap == [x \in {} |-> 0]

Bump(f, k) == [f EXCEPT ![k] = @ + 1]

TransitionKinds == {"restock", "sold_out"}

\* the accounts the store holds at once in this model
MaxAccounts == 2

\* the values randomUUID can give
UuidPool == 1..(MaxAccounts + 1)

\* resolve(dir, `${accountId}.session`)
SessionFileNames ==
    << "1.session", "2.session", "3.session", "4.session", "5.session" >>

SessionPath(accountId) == SessionFileNames[accountId]

SessionPaths == { SessionPath(id) : id \in UuidPool }

\* a path at which no file exists
NoFile == [absent |-> TRUE]

(***************************************************************************)
(* Init: startMonitoring has passed its prerequisite checks and registered *)
(* the signal handlers; it is parked at await launchStealthBrowser.  No    *)
(* account has been added yet: there is no accounts file and no session    *)
(* file.                                                                   *)
(***************************************************************************)
EngineInitFrom(detections, monitorings) ==
    /\ config \in [detection : detections,
                   monitoring : monitorings,
                   telegram : TelegramConfigs]
    /\ running = TRUE
    /\ browser = "null"
    /\ context = "null"
    /\ page = "null"
    /\ cronTask = "null"
    /\ stateMap = EmptyMap
    /\ alertCooldowns = EmptyMap
    /\ dailyRestocks = 0
    /\ dailySoldOuts = 0
    /\ dailyErrors = 0
    /\ sessionId = 0
    /\ cycleCount = 0
    /\ consecutiveFailures = 0
    /\ currentCooldownMs = config.detection.cooldownMs
    /\ pc = "launch"
    /\ idx = 0
    /\ newStatus = NoState
    /\ sd = "none"
    /\ now = StartTime
    /\ history = [e \in Urls \X TransitionKinds |-> 0]
    /\ sent = [startup |-> 0, pause |-> 0, restock |-> [u \in Urls |-> 0]]
    /\ lastRestockAlertAt = [u \in Urls |-> 0]
    /\ fetched = {}
    /\ abortedAt = 0
    /\ streak = 0
    /\ lastSleepMs = 0
    /\ seeded = EmptyMap
    /\ fetchCount = 0
    /\ cdLog = << >>
    /\ historyFile = << >>
    /\ liveContexts = 0
    /\ sdLog = << >>
    /\ dg = "idle"
    /\ digests = << >>
    /\ storeFile = NoFile
    /\ sessionFiles = [path \in SessionPaths |-> NoFile]
    /\ issued = {}

EngineInit(detections, urlList) ==
    EngineInitFrom(detections, {MonitoringWith(urlList)})

\* the engine on its own: no function call is examined
InitWith(detections, urlList) ==
    /\ EngineInit(detections, urlList)
    /\ call = << >>
    /\ ret = << >>

\* two watched urls, the detection sections above
Init == InitWith(DetectionConfigs, << "u1", "u2" >>)

\* three watched urls, the default detection section
InitThree == InitWith({DefaultDetection}, << "u1", "u2", "u3" >>)

\* two watched urls, the default detection section
InitTwo == InitWith({DefaultDetection}, << "u1", "u2" >>)

\* one watched url, the default detection section
InitOne == InitWith({DefaultDetection}, << "u1" >>)

\* one watched url, the default detection section, the poll timings above
InitTimed ==
    /\ EngineInitFrom({DefaultDetection}, TimedMonitoring(<< "u1" >>))
    /\ call = << >>
    /\ ret = << >>

Alive == sd # "exited"

(***************************************************************************)
(* Control flow of pollCycle between awaits                                *)
(***************************************************************************)
\* as AfterLoopPc, but giving up once the retry threshold is passed
AfterLoopPcGivesUp ==
    IF running /\ consecutiveFailures <= config.detection.maxRetries
    THEN "scheduled" ELSE "returned"

\* poller.ts:258-261, after the for loop
AfterLoopPc == IF running THEN "scheduled" ELSE "returned"

\* poller.ts:163-170, the head of iteration i up to the jitter delay
LoopHeadPc(i) ==
    IF i > NumUrls THEN AfterLoopPc
    ELSE IF ~running THEN AfterLoopPc
    ELSE "delay"

LoopHead(i) ==
    /\ pc' = LoopHeadPc(i)
    /\ idx' = IF LoopHeadPc(i) = "delay" THEN i ELSE 0

\* as BreakLoop, but carrying on with the next url of the cycle
ContinueLoop == LoopHead(idx + 1)

\* poller.ts:181 and 188, the break that follows handleDetectionEvent
BreakLoop ==
    /\ pc' = AfterLoopPc
    /\ idx' = 0

\* poller.ts:150-161, pollCycle from its entry to its first await
PollCycleEntry ==
    IF ~running
    THEN /\ pc' = "returned"
         /\ idx' = 0
         /\ UNCHANGED << cycleCount, fetched, abortedAt >>
    ELSE /\ cycleCount' = cycleCount + 1
         /\ fetched' = {}
         /\ abortedAt' = 0
         /\ IF config.monitoring.contextRotationCycles # 0
               /\ (cycleCount + 1) % config.monitoring.contextRotationCycles = 0
            THEN pc' = "rot_closepage" /\ idx' = 0
            ELSE LoopHead(1)

(***************************************************************************)
(* Browser contexts.  close() takes effect on the object it is called on;  *)
(* on a context that is closed already, or whose browser is closed, it     *)
(* only raises an error, which every caller ignores.                       *)
(***************************************************************************)
\* context.close() on the context the engine holds
CloseContext ==
    /\ context' = "closed"
    /\ liveContexts' = liveContexts -
            (IF context = "open" /\ browser = "open" THEN 1 ELSE 0)

\* poller.ts:66-71, freshContext on an open browser, and the assignment of
\* its result to context and page
NewContext ==
    /\ context' = "open"
    /\ page' = "open"
    /\ liveContexts' = liveContexts + 1

\* poller.ts:51, taken when shutdown is entered: the digest timer is stopped
\* if it has been scheduled
StopTimerStep ==
    IF sd = "none" /\ cronTask = "scheduled" THEN << "stop_timer" >> ELSE << >>

(***************************************************************************)
(* startMonitoring up to the first poll cycle                              *)
(***************************************************************************)
\* poller.ts:62-64
LaunchBrowser ==
    /\ Alive /\ pc = "launch"
    /\ browser' = "open"
    /\ sessionId' = sessionId + 1
    /\ pc' = "fresh0"
    /\ UNCHANGED << config, historyFile, liveContexts, sdLog, digestVars,
                    harnessVars, seeded, fetchCount, running, context, page, cronTask, stateMap,
                    alertCooldowns, dailyRestocks, dailySoldOuts, dailyErrors,
                    cycleCount, consecutiveFailures, currentCooldownMs, idx,
                    newStatus, sd, now, history, sent, lastRestockAlertAt,
                    fetched, abortedAt, streak, lastSleepMs, cdLog >>

\* poller.ts:73-84
InitialContext ==
    /\ Alive /\ pc = "fresh0"
    /\ IF browser = "open"
       THEN /\ NewContext
            /\ IF running THEN pc' = "init" /\ idx' = 1
                          ELSE pc' = "startup" /\ idx' = 0
       ELSE /\ pc' = "rejected"
            /\ idx' = 0
            /\ UNCHANGED << context, page, liveContexts >>
    /\ UNCHANGED << config, historyFile, sdLog, digestVars,
                    harnessVars, seeded, fetchCount, running, browser, cronTask, stateMap,
                    alertCooldowns, dailyRestocks, dailySoldOuts, dailyErrors,
                    sessionId, cycleCount, consecutiveFailures,
                    currentCooldownMs, newStatus, sd, now, history, sent,
                    lastRestockAlertAt, fetched, abortedAt, streak,
                    lastSleepMs, cdLog >>

\* poller.ts:83-113, one iteration of the initial status pass
InitialCheck ==
    /\ Alive /\ pc = "init"
    /\ \/ \E s \in ObservedStatus :
            /\ page = "open"
            /\ stateMap' = MapSet(stateMap, urls[idx], s)
       \/ UNCHANGED stateMap          \* goto or extraction threw: caught, logged
    /\ IF idx + 1 > NumUrls \/ ~running
       THEN pc' = "startup" /\ idx' = 0
       ELSE pc' = "init" /\ idx' = idx + 1
    /\ UNCHANGED << config, historyFile, liveContexts, sdLog, digestVars,
                    harnessVars, seeded, fetchCount, running, browser, context, page, cronTask,
                    alertCooldowns, dailyRestocks, dailySoldOuts, dailyErrors,
                    sessionId, cycleCount, consecutiveFailures,
                    currentCooldownMs, newStatus, sd, now, history, sent,
                    lastRestockAlertAt, fetched, abortedAt, streak,
                    lastSleepMs, cdLog >>

\* poller.ts:118-147 and 291: the startup message has been sent, the digest
\* is scheduled and pollCycle is called
StartPolling ==
    /\ Alive /\ pc = "startup"
    /\ sent' = [sent EXCEPT !.startup = @ + 1]
    /\ cronTask' = "scheduled"
    /\ seeded' = stateMap
    /\ PollCycleEntry
    /\ UNCHANGED << config, historyFile, liveContexts, sdLog, digestVars,
                    harnessVars, fetchCount, running, browser, context, page, stateMap,
                    alertCooldowns, dailyRestocks, dailySoldOuts, dailyErrors,
                    sessionId, consecutiveFailures, currentCooldownMs,
                    newStatus, sd, now, history, lastRestockAlertAt, streak,
                    lastSleepMs, cdLog >>

\* as TimerPollCycle, but taking up an aborted cycle at the target after the
\* one that was detected
TimerPollCycleResuming ==
    /\ Alive /\ pc = "scheduled"
    /\ IF running /\ abortedAt # 0 /\ abortedAt < NumUrls
       THEN /\ LoopHead(abortedAt + 1)
            /\ abortedAt' = 0
            /\ UNCHANGED << cycleCount, fetched >>
       ELSE PollCycleEntry
    /\ UNCHANGED << config, historyFile, liveContexts, sdLog, digestVars,
                    harnessVars, seeded, fetchCount, running, browser, context, page, cronTask,
                    stateMap, alertCooldowns, dailyRestocks, dailySoldOuts,
                    dailyErrors, sessionId, consecutiveFailures,
                    currentCooldownMs, newStatus, sd, now, history, sent,
                    lastRestockAlertAt, streak, lastSleepMs, cdLog >>

\* poller.ts:260, the timer set by setTimeout(pollCycle, 0) fires
TimerPollCycle ==
    /\ Alive /\ pc = "scheduled"
    /\ PollCycleEntry
    /\ UNCHANGED << config, historyFile, liveContexts, sdLog, digestVars,
                    harnessVars, seeded, fetchCount, running, browser, context, page, cronTask,
                    stateMap, alertCooldowns, dailyRestocks, dailySoldOuts,
                    dailyErrors, sessionId, consecutiveFailures,
                    currentCooldownMs, newStatus, sd, now, history, sent,
                    lastRestockAlertAt, streak, lastSleepMs, cdLog >>

(***************************************************************************)
(* Proactive context rotation, poller.ts:155-161                           *)
(***************************************************************************)
\* page.close() has settled; context.close() is called
RotateClosePage ==
    /\ Alive /\ pc = "rot_closepage"
    /\ page' = "closed"
    /\ pc' = "rot_closectx"
    /\ UNCHANGED << config, historyFile, liveContexts, sdLog, digestVars,
                    harnessVars, seeded, fetchCount, running, browser, context, cronTask, stateMap,
                    alertCooldowns, dailyRestocks, dailySoldOuts, dailyErrors,
                    sessionId, cycleCount, consecutiveFailures,
                    currentCooldownMs, idx, newStatus, sd, now, history, sent,
                    lastRestockAlertAt, fetched, abortedAt, streak,
                    lastSleepMs, cdLog >>

\* as RotateCloseContext, but leaving the old context open
RotateCloseContextLeaking ==
    /\ Alive /\ pc = "rot_closectx"
    /\ sessionId' = sessionId + 1
    /\ pc' = "rot_fresh"
    /\ UNCHANGED << config, historyFile, liveContexts, sdLog, digestVars,
                    harnessVars, seeded, fetchCount, running, browser, page,
                    context, cronTask, stateMap,
                    alertCooldowns, dailyRestocks, dailySoldOuts, dailyErrors,
                    cycleCount, consecutiveFailures, currentCooldownMs, idx,
                    newStatus, sd, now, history, sent, lastRestockAlertAt,
                    fetched, abortedAt, streak, lastSleepMs, cdLog >>

\* context.close() has settled; a session id is drawn, freshContext is called
RotateCloseContext ==
    /\ Alive /\ pc = "rot_closectx"
    /\ CloseContext
    /\ sessionId' = sessionId + 1
    /\ pc' = "rot_fresh"
    /\ UNCHANGED << config, historyFile, sdLog, digestVars,
                    harnessVars, seeded, fetchCount, running, browser, page, cronTask, stateMap,
                    alertCooldowns, dailyRestocks, dailySoldOuts, dailyErrors,
                    cycleCount, consecutiveFailures, currentCooldownMs, idx,
                    newStatus, sd, now, history, sent, lastRestockAlertAt,
                    fetched, abortedAt, streak, lastSleepMs, cdLog >>

\* freshContext() has settled: a context and page on the browser, or an
\* error when the browser has been closed meanwhile (nothing catches it)
RotateFresh ==
    /\ Alive /\ pc = "rot_fresh"
    /\ IF browser = "open"
       THEN /\ NewContext
            /\ LoopHead(1)
       ELSE /\ pc' = "rejected"
            /\ idx' = 0
            /\ UNCHANGED << context, page, liveContexts >>
    /\ UNCHANGED << config, historyFile, sdLog, digestVars,
                    harnessVars, seeded, fetchCount, running, browser, cronTask, stateMap,
                    alertCooldowns, dailyRestocks, dailySoldOuts, dailyErrors,
                    sessionId, cycleCount, consecutiveFailures,
                    currentCooldownMs, newStatus, sd, now, history, sent,
                    lastRestockAlertAt, fetched, abortedAt, streak,
                    lastSleepMs, cdLog >>

(***************************************************************************)
(* One iteration of the for loop over monitoring.urls, poller.ts:163-256   *)
(***************************************************************************)
\* poller.ts:264-268, handleDetectionEvent from its entry to await page.close()
HandleDetectionEntry ==
    /\ consecutiveFailures' = consecutiveFailures + 1
    /\ dailyErrors' = dailyErrors + 1
    /\ streak' = streak + 1
    /\ abortedAt' = idx
    /\ cdLog' = << "increment" >>
    /\ pc' = "hde_closepage"

\* poller.ts:170-177, the jitter delay has elapsed
DelayElapsed ==
    /\ Alive /\ pc = "delay"
    /\ \E jitter \in JitterSamples(config.monitoring.jitterMs) :
          now' = now + PollDelay(config.monitoring.basePollIntervalMs, jitter)
    /\ IF ~running
       THEN /\ pc' = AfterLoopPc
            /\ idx' = 0
            /\ UNCHANGED << fetched, fetchCount >>
       ELSE /\ fetchCount < MaxFetches
            /\ pc' = "goto"
            /\ fetched' = fetched \cup {idx}
            /\ fetchCount' = fetchCount + 1
            /\ UNCHANGED idx
    /\ UNCHANGED << config, historyFile, liveContexts, sdLog, digestVars,
                    harnessVars, seeded, running, browser, context, page, cronTask,
                    stateMap, alertCooldowns, dailyRestocks, dailySoldOuts,
                    dailyErrors, sessionId, cycleCount, consecutiveFailures,
                    currentCooldownMs, newStatus, sd, history, sent,
                    lastRestockAlertAt, abortedAt, streak, lastSleepMs, cdLog >>

\* poller.ts:175-184, page.goto has settled: a response, or an error
Navigate ==
    /\ Alive /\ pc = "goto"
    /\ \/ /\ page = "open"
          /\ pc' = "classify"
          /\ UNCHANGED << consecutiveFailures, dailyErrors, streak, abortedAt,
                          cdLog >>
       \/ HandleDetectionEntry
    /\ UNCHANGED << config, historyFile, liveContexts, sdLog, digestVars,
                    harnessVars, seeded, fetchCount, running, browser, context, page, cronTask,
                    stateMap, alertCooldowns, dailyRestocks, dailySoldOuts,
                    sessionId, cycleCount, currentCooldownMs, idx, newStatus,
                    sd, now, history, sent, lastRestockAlertAt, fetched,
                    lastSleepMs >>

\* as ResetFailureTracking, but leaving the backed-off cooldown in place
ResetFailuresOnly ==
    /\ consecutiveFailures' = 0
    /\ UNCHANGED currentCooldownMs

\* poller.ts:191-193
ResetFailureTracking ==
    /\ consecutiveFailures' = 0
    /\ currentCooldownMs' = config.detection.cooldownMs

\* poller.ts:184-195, checkDetection has settled: detected, clean, or an error
\* from one of its driver calls that it does not catch
Classify ==
    /\ Alive /\ pc = "classify"
    /\ \/ /\ HandleDetectionEntry
          /\ UNCHANGED currentCooldownMs
       \/ /\ pc' = "rejected"
          /\ UNCHANGED << consecutiveFailures, currentCooldownMs, dailyErrors,
                          streak, abortedAt, cdLog >>
       \/ /\ page = "open"
          /\ ResetFailureTracking
          /\ streak' = 0
          /\ pc' = "extract"
          /\ UNCHANGED << dailyErrors, abortedAt, cdLog >>
    /\ UNCHANGED << config, historyFile, liveContexts, sdLog, digestVars,
                    harnessVars, seeded, fetchCount, running, browser, context, page, cronTask,
                    stateMap, alertCooldowns, dailyRestocks, dailySoldOuts,
                    sessionId, cycleCount, idx, newStatus, sd, now, history,
                    sent, lastRestockAlertAt, fetched, lastSleepMs >>

\* as LastAlert, but with one rate limit shared by all urls
LastAlertAnyUrl(url) ==
    IF DOMAIN alertCooldowns = {} THEN 0
    ELSE CHOOSE t \in {alertCooldowns[u] : u \in DOMAIN alertCooldowns} :
            \A u \in DOMAIN alertCooldowns : alertCooldowns[u] <= t

\* poller.ts:226
LastAlert(url) == MapGet(alertCooldowns, url, 0)

\* stateMap.get(url) ?? null, with the fields that the table of the model
\* does not keep left null
StateOrNull(status) ==
    IF status = NoState THEN NullState
    ELSE StockStateOf(status, "null", "null")

\* the StockEvent that pollCycle hands to logStockEvent (poller.ts:215-223
\* and 244-252)
StockEvent(url, previous, status, transition) ==
    [url |-> url, previousStatus |-> previous, newStatus |-> status,
     transition |-> transition]

\* as logStockEvent, but writing the file anew instead of appending to it
logStockEventOverwriting(event) ==
    /\ historyFile' = << event >>
    /\ history' = Bump(history, << event.url, event.transition >>)

\* history.ts, logStockEvent: appendFileSync of one line; history keeps the
\* tally of the lines by url and kind
logStockEvent(event) ==
    /\ historyFile' = Append(historyFile, event)
    /\ history' = Bump(history, << event.url, event.transition >>)

\* poller.ts:195-255, extractProductData has settled with a status
ExtractStatus(status) ==
    LET url == urls[idx]
        previous == MapGet(stateMap, url, NoState)
        transition == detectTransition(StateOrNull(previous),
                                       StockStateOf(status, "null", "null"))
        lastAlert == LastAlert(url)
    IN  IF transition = "restock"
        THEN /\ dailyRestocks' = dailyRestocks + 1
             /\ logStockEvent(StockEvent(url, previous, status, transition))
             /\ UNCHANGED dailySoldOuts
             /\ IF now - lastAlert > config.telegram.alertCooldownMs
                THEN /\ alertCooldowns' = MapSet(alertCooldowns, url, now)
                     /\ sent' = [sent EXCEPT !.restock[url] = @ + 1]
                     /\ lastRestockAlertAt' =
                            [lastRestockAlertAt EXCEPT ![url] = now]
                     /\ newStatus' = status
                     /\ pc' = "alert_send"
                     /\ UNCHANGED << stateMap, idx >>
                ELSE /\ stateMap' = MapSet(stateMap, url, status)
                     /\ LoopHead(idx + 1)
                     /\ UNCHANGED << alertCooldowns, sent, lastRestockAlertAt,
                                     newStatus >>
        ELSE /\ IF transition = "sold_out"
                THEN /\ dailySoldOuts' = dailySoldOuts + 1
                     /\ logStockEvent(StockEvent(url, previous, status,
                                                 transition))
                ELSE UNCHANGED << dailySoldOuts, history, historyFile >>
             /\ stateMap' = MapSet(stateMap, url, status)
             /\ LoopHead(idx + 1)
             /\ UNCHANGED << dailyRestocks, alertCooldowns, sent,
                             lastRestockAlertAt, newStatus >>

Extract ==
    /\ Alive /\ pc = "extract"
    /\ \/ \E status \in ObservedStatus : ExtractStatus(status)
       \/ /\ pc' = "rejected"         \* the extraction threw: nothing catches it
          /\ UNCHANGED << stateMap, alertCooldowns, dailyRestocks,
                          dailySoldOuts, idx, newStatus, history, sent,
                          lastRestockAlertAt, historyFile >>
    /\ UNCHANGED << config, liveContexts, sdLog, digestVars,
                    harnessVars, seeded, fetchCount, running, browser, context, page, cronTask,
                    dailyErrors, sessionId, cycleCount, consecutiveFailures,
                    currentCooldownMs, sd, now, fetched, abortedAt, streak,
                    lastSleepMs, cdLog >>

\* poller.ts:229-255, the restock alert has been sent
AlertSent ==
    /\ Alive /\ pc = "alert_send"
    /\ stateMap' = MapSet(stateMap, urls[idx], newStatus)
    /\ newStatus' = NoState
    /\ LoopHead(idx + 1)
    /\ UNCHANGED << config, historyFile, liveContexts, sdLog, digestVars,
                    harnessVars, seeded, fetchCount, running, browser, context, page, cronTask,
                    alertCooldowns, dailyRestocks, dailySoldOuts, dailyErrors,
                    sessionId, cycleCount, consecutiveFailures,
                    currentCooldownMs, sd, now, history, sent,
                    lastRestockAlertAt, fetched, abortedAt, streak,
                    lastSleepMs, cdLog >>

(***************************************************************************)
(* handleDetectionEvent, poller.ts:264-288                                 *)
(***************************************************************************)
\* as NextCooldownMs, but backing off one failure early
NextCooldownMsEarly(failures, cooldownMs, maxRetries) ==
    IF failures >= maxRetries
    THEN Min(cooldownMs * 2, CooldownCapMs)
    ELSE cooldownMs

\* poller.ts:273
NextCooldownMs(failures, cooldownMs, maxRetries) ==
    IF failures > maxRetries
    THEN Min(cooldownMs * 2, CooldownCapMs)
    ELSE cooldownMs

\* page.close() has settled; context.close() is called
HdeClosePage ==
    /\ Alive /\ pc = "hde_closepage"
    /\ page' = "closed"
    /\ cdLog' = Append(cdLog, "close_page")
    /\ pc' = "hde_closectx"
    /\ UNCHANGED << config, historyFile, liveContexts, sdLog, digestVars,
                    harnessVars, seeded, fetchCount, running, browser, context, cronTask, stateMap,
                    alertCooldowns, dailyRestocks, dailySoldOuts, dailyErrors,
                    sessionId, cycleCount, consecutiveFailures,
                    currentCooldownMs, idx, newStatus, sd, now, history, sent,
                    lastRestockAlertAt, fetched, abortedAt, streak,
                    lastSleepMs >>

\* as HdeCloseContext, but without the pause message
HdeCloseContextSilent ==
    /\ Alive /\ pc = "hde_closectx"
    /\ CloseContext
    /\ currentCooldownMs' = NextCooldownMs(consecutiveFailures,
                                currentCooldownMs, config.detection.maxRetries)
    /\ UNCHANGED sent
    /\ cdLog' = cdLog \o << "close_context" >>
                      \o (IF consecutiveFailures > config.detection.maxRetries
                          THEN << "double" >> ELSE << >>)
    /\ pc' = "hde_notify"
    /\ UNCHANGED << config, historyFile, sdLog, digestVars,
                    harnessVars, seeded, fetchCount, running, browser, page, cronTask, stateMap,
                    alertCooldowns, dailyRestocks, dailySoldOuts, dailyErrors,
                    sessionId, cycleCount, consecutiveFailures, idx,
                    newStatus, sd, now, history, lastRestockAlertAt, fetched,
                    abortedAt, streak, lastSleepMs >>

\* context.close() has settled; the backoff is applied and the pause message
\* is handed to sendTelegramMessage
HdeCloseContext ==
    /\ Alive /\ pc = "hde_closectx"
    /\ CloseContext
    /\ currentCooldownMs' = NextCooldownMs(consecutiveFailures,
                                currentCooldownMs, config.detection.maxRetries)
    /\ sent' = [sent EXCEPT !.pause = @ + 1]
    /\ cdLog' = cdLog \o << "close_context" >>
                      \o (IF consecutiveFailures > config.detection.maxRetries
                          THEN << "double" >> ELSE << >>)
                      \o << "notify" >>
    /\ pc' = "hde_notify"
    /\ UNCHANGED << config, historyFile, sdLog, digestVars,
                    harnessVars, seeded, fetchCount, running, browser, page, cronTask, stateMap,
                    alertCooldowns, dailyRestocks, dailySoldOuts, dailyErrors,
                    sessionId, cycleCount, consecutiveFailures, idx,
                    newStatus, sd, now, history, lastRestockAlertAt, fetched,
                    abortedAt, streak, lastSleepMs >>

\* as HdeNotified, but returning to pollCycle without awaiting the cooldown
HdeNotifiedNoSleep ==
    /\ Alive /\ pc = "hde_notify"
    /\ BreakLoop
    /\ UNCHANGED << config, historyFile, liveContexts, sdLog, digestVars,
                    harnessVars, seeded, fetchCount, running, browser, context, page,
                    cronTask, stateMap, alertCooldowns, dailyRestocks,
                    dailySoldOuts, dailyErrors, sessionId, cycleCount,
                    consecutiveFailures, currentCooldownMs, newStatus, sd, now,
                    history, sent, lastRestockAlertAt, fetched, abortedAt,
                    streak, lastSleepMs, cdLog >>

\* sendTelegramMessage has settled; the cooldown timer is set
HdeNotified ==
    /\ Alive /\ pc = "hde_notify"
    /\ lastSleepMs' = currentCooldownMs
    /\ cdLog' = Append(cdLog, "sleep")
    /\ pc' = "hde_sleep"
    /\ UNCHANGED << config, historyFile, liveContexts, sdLog, digestVars,
                    harnessVars, seeded, fetchCount, running, browser, context, page, cronTask,
                    stateMap, alertCooldowns, dailyRestocks, dailySoldOuts,
                    dailyErrors, sessionId, cycleCount, consecutiveFailures,
                    currentCooldownMs, idx, newStatus, sd, now, history, sent,
                    lastRestockAlertAt, fetched, abortedAt, streak >>

\* the cooldown timer has fired; a session id is drawn, freshContext is called
HdeSleepElapsed ==
    /\ Alive /\ pc = "hde_sleep"
    /\ now' = now + lastSleepMs
    /\ sessionId' = sessionId + 1
    /\ cdLog' = Append(cdLog, "session")
    /\ pc' = "hde_fresh"
    /\ UNCHANGED << config, historyFile, liveContexts, sdLog, digestVars,
                    harnessVars, seeded, fetchCount, running, browser, context, page, cronTask,
                    stateMap, alertCooldowns, dailyRestocks, dailySoldOuts,
                    dailyErrors, cycleCount, consecutiveFailures,
                    currentCooldownMs, idx, newStatus, sd, history, sent,
                    lastRestockAlertAt, fetched, abortedAt, streak,
                    lastSleepMs >>

\* as HdeFresh, but with the StockState table emptied along with the old
\* context
HdeFreshForgetting ==
    /\ Alive /\ pc = "hde_fresh"
    /\ IF browser = "open"
       THEN /\ NewContext
            /\ cdLog' = Append(cdLog, "fresh")
            /\ BreakLoop
       ELSE /\ pc' = "rejected"
            /\ idx' = 0
            /\ UNCHANGED << context, page, cdLog, liveContexts >>
    /\ stateMap' = EmptyMap
    /\ UNCHANGED << config, historyFile, sdLog, digestVars,
                    harnessVars, seeded, fetchCount, running, browser, cronTask,
                    alertCooldowns, dailyRestocks, dailySoldOuts, dailyErrors,
                    sessionId, cycleCount, consecutiveFailures,
                    currentCooldownMs, newStatus, sd, now, history, sent,
                    lastRestockAlertAt, fetched, abortedAt, streak,
                    lastSleepMs >>

\* freshContext() has settled; handleDetectionEvent returns, pollCycle breaks
\* out of the loop (poller.ts:181, 188) and runs poller.ts:258-261
HdeFresh ==
    /\ Alive /\ pc = "hde_fresh"
    /\ IF browser = "open"
       THEN /\ NewContext
            /\ cdLog' = Append(cdLog, "fresh")
            /\ BreakLoop
       ELSE /\ pc' = "rejected"
            /\ idx' = 0
            /\ UNCHANGED << context, page, cdLog, liveContexts >>
    /\ UNCHANGED << config, historyFile, sdLog, digestVars,
                    harnessVars, seeded, fetchCount, running, browser, cronTask, stateMap,
                    alertCooldowns, dailyRestocks, dailySoldOuts, dailyErrors,
                    sessionId, cycleCount, consecutiveFailures,
                    currentCooldownMs, newStatus, sd, now, history, sent,
                    lastRestockAlertAt, fetched, abortedAt, streak,
                    lastSleepMs >>

(***************************************************************************)
(* shutdown, poller.ts:48-58.  close() takes effect on the object it is    *)
(* called on, so the effect is applied where the call is made.             *)
(***************************************************************************)
\* as ShutdownFrom, but never closing the page
ShutdownFromSkippingPage(stage) ==
    IF stage \in {"page", "context"} /\ context # "null"
    THEN /\ CloseContext
         /\ sd' = "context"
         /\ sdLog' = sdLog \o StopTimerStep \o << "close_context" >>
         /\ UNCHANGED << page, browser >>
    ELSE IF browser # "null"
    THEN /\ browser' = "closed"
         /\ liveContexts' = 0
         /\ sd' = "browser"
         /\ sdLog' = sdLog \o StopTimerStep \o << "close_browser" >>
         /\ UNCHANGED << page, context >>
    ELSE /\ sd' = "exited"
         /\ sdLog' = sdLog \o StopTimerStep \o << "exit" >>
         /\ UNCHANGED << page, context, browser, liveContexts >>

\* what shutdown does once the resources before `stage` are dealt with
ShutdownFrom(stage) ==
    IF stage = "page" /\ page # "null"
    THEN /\ page' = "closed"
         /\ sd' = "page"
         /\ sdLog' = sdLog \o StopTimerStep \o << "close_page" >>
         /\ UNCHANGED << context, browser, liveContexts >>
    ELSE IF stage \in {"page", "context"} /\ context # "null"
    THEN /\ CloseContext
         /\ sd' = "context"
         /\ sdLog' = sdLog \o StopTimerStep \o << "close_context" >>
         /\ UNCHANGED << page, browser >>
    ELSE IF browser # "null"
    THEN /\ browser' = "closed"
         /\ liveContexts' = 0
         /\ sd' = "browser"
         /\ sdLog' = sdLog \o StopTimerStep \o << "close_browser" >>
         /\ UNCHANGED << page, context >>
    ELSE /\ sd' = "exited"
         /\ sdLog' = sdLog \o StopTimerStep \o << "exit" >>
         /\ UNCHANGED << page, context, browser, liveContexts >>

\* SIGINT or SIGTERM arrives
ShutdownSignal ==
    /\ sd = "none"
    /\ running' = FALSE
    /\ cronTask' = IF cronTask = "scheduled" THEN "stopped" ELSE cronTask
    /\ ShutdownFrom("page")
    /\ UNCHANGED << config, historyFile, digestVars,
                    harnessVars, seeded, fetchCount, stateMap, alertCooldowns, dailyRestocks,
                    dailySoldOuts, dailyErrors, sessionId, cycleCount,
                    consecutiveFailures, currentCooldownMs, pc, idx,
                    newStatus, now, history, sent, lastRestockAlertAt,
                    fetched, abortedAt, streak, lastSleepMs, cdLog >>

ShutdownPageClosed ==
    /\ sd = "page"
    /\ ShutdownFrom("context")
    /\ UNCHANGED << config, historyFile, digestVars,
                    harnessVars, seeded, fetchCount, running, cronTask, stateMap, alertCooldowns,
                    dailyRestocks, dailySoldOuts, dailyErrors, sessionId,
                    cycleCount, consecutiveFailures, currentCooldownMs, pc,
                    idx, newStatus, now, history, sent, lastRestockAlertAt,
                    fetched, abortedAt, streak, lastSleepMs, cdLog >>

ShutdownContextClosed ==
    /\ sd = "context"
    /\ ShutdownFrom("browser")
    /\ UNCHANGED << config, historyFile, digestVars,
                    harnessVars, seeded, fetchCount, running, cronTask, stateMap, alertCooldowns,
                    dailyRestocks, dailySoldOuts, dailyErrors, sessionId,
                    cycleCount, consecutiveFailures, currentCooldownMs, pc,
                    idx, newStatus, now, history, sent, lastRestockAlertAt,
                    fetched, abortedAt, streak, lastSleepMs, cdLog >>

\* browser.close() has settled: process.exit(0)
ShutdownExit ==
    /\ sd = "browser"
    /\ sd' = "exited"
    /\ sdLog' = Append(sdLog, "exit")
    /\ UNCHANGED << config, historyFile, liveContexts, digestVars,
                    harnessVars, seeded, fetchCount, running, browser, context, page, cronTask,
                    stateMap, alertCooldowns, dailyRestocks, dailySoldOuts,
                    dailyErrors, sessionId, cycleCount, consecutiveFailures,
                    currentCooldownMs, pc, idx, newStatus, now, history, sent,
                    lastRestockAlertAt, fetched, abortedAt, streak,
                    lastSleepMs, cdLog >>

(***************************************************************************)
(* The daily digest, poller.ts:124-142: the callback that node-cron runs   *)
(* at the digest hour while the task is scheduled.  The hour may come at   *)
(* any moment of a run and then again a day later; a firing a day after    *)
(* one whose send is still pending is not followed.                        *)
(***************************************************************************)
\* the digest hour has come: at any moment for the first digest of a run; a
\* later one comes a day after the one before it, so not before the engine
\* has run for a day
DigestDue ==
    IF digests = << >> THEN TRUE
    ELSE now - StartTime >= DayMs

\* poller.ts:126-136, the callback from its entry to await sendTelegramMessage
DigestFire ==
    /\ Alive /\ cronTask = "scheduled" /\ dg = "idle"
    /\ DigestDue
    /\ digests' = Append(digests,
                      [urlsMonitored |-> NumUrls,
                       restocksDetected |-> dailyRestocks,
                       soldOuts |-> dailySoldOuts,
                       errorsEncountered |-> dailyErrors])
    /\ dg' = "sending"
    /\ UNCHANGED << config, historyFile, liveContexts, sdLog, harnessVars,
                    running, browser, context, page, cronTask, stateMap,
                    alertCooldowns, dailyRestocks, dailySoldOuts, dailyErrors,
                    sessionId, cycleCount, consecutiveFailures,
                    currentCooldownMs, pc, idx, newStatus, sd, now, history,
                    sent, lastRestockAlertAt, fetched, abortedAt, streak,
                    lastSleepMs, seeded, fetchCount, cdLog >>

\* as DigestSent, but leaving the error counter as it is
DigestSentKeepingErrors ==
    /\ Alive /\ dg = "sending"
    /\ dailyRestocks' = 0
    /\ dailySoldOuts' = 0
    /\ dg' = "idle"
    /\ UNCHANGED << config, historyFile, liveContexts, sdLog, harnessVars,
                    running, browser, context, page, cronTask, stateMap,
                    alertCooldowns, dailyErrors, sessionId, cycleCount,
                    consecutiveFailures, currentCooldownMs, pc, idx,
                    newStatus, sd, now, history, sent, lastRestockAlertAt,
                    fetched, abortedAt, streak, lastSleepMs, seeded,
                    fetchCount, cdLog, digests >>

\* poller.ts:138-141, sendTelegramMessage has settled: the counters are reset
DigestSent ==
    /\ Alive /\ dg = "sending"
    /\ dailyRestocks' = 0
    /\ dailySoldOuts' = 0
    /\ dailyErrors' = 0
    /\ dg' = "idle"
    /\ UNCHANGED << config, historyFile, liveContexts, sdLog, harnessVars,
                    running, browser, context, page, cronTask, stateMap,
                    alertCooldowns, sessionId, cycleCount,
                    consecutiveFailures, currentCooldownMs, pc, idx,
                    newStatus, sd, now, history, sent, lastRestockAlertAt,
                    fetched, abortedAt, streak, lastSleepMs, seeded,
                    fetchCount, cdLog, digests >>

Next ==
    \/ LaunchBrowser
    \/ InitialContext
    \/ InitialCheck
    \/ StartPolling
    \/ TimerPollCycle
    \/ RotateClosePage
    \/ RotateCloseContext
    \/ RotateFresh
    \/ DelayElapsed
    \/ Navigate
    \/ Classify
    \/ Extract
    \/ AlertSent
    \/ HdeClosePage
    \/ HdeCloseContext
    \/ HdeNotified
    \/ HdeSleepElapsed
    \/ HdeFresh
    \/ ShutdownSignal
    \/ ShutdownPageClosed
    \/ ShutdownContextClosed
    \/ ShutdownExit

Spec == Init /\ [][Next]_vars

SpecThree == InitThree /\ [][Next]_vars

SpecOne == InitOne /\ [][Next]_vars

SpecTwo == InitTwo /\ [][Next]_vars

SpecTimed == InitTimed /\ [][Next]_vars

\* the engine on a stretch of the day without the digest hour (Next), and on
\* one with it
NextDigest ==
    \/ Next
    \/ DigestFire
    \/ DigestSent

SpecDigest == InitOne /\ [][NextDigest]_vars

TypeOK ==
    /\ running \in BOOLEAN
    /\ pc \in {"launch", "fresh0", "init", "startup", "scheduled", "returned",
               "rejected", "rot_closepage", "rot_closectx", "rot_fresh",
               "delay", "goto", "classify", "extract", "alert_send",
               "hde_closepage", "hde_closectx", "hde_notify", "hde_sleep",
               "hde_fresh"}
    /\ sd \in {"none", "page", "context", "browser", "exited"}
    /\ DOMAIN stateMap \subseteq Urls

(***************************************************************************)
(* Properties                                                              *)
(***************************************************************************)
Range(f) == {f[i] : i \in DOMAIN f}

IsPrefix(s, t) == Len(s) <= Len(t) /\ SubSeq(t, 1, Len(s)) = s

HdePcs == {"hde_closepage", "hde_closectx", "hde_notify", "hde_sleep",
           "hde_fresh"}

\* a step in which a settled fetch (navigation or classification) is found
\* to be a navigation error or a detection signal
DetectionStep ==
    /\ pc \in {"goto", "classify"}
    /\ pc' \notin {pc, "classify", "extract", "rejected"}

\* C1: when the fetch of a target yields a detection signal or a navigation
\* error, no later target of the configured order is fetched in that cycle and
\* consecutiveFailures grows by exactly 1; both outcomes enter the same
\* cooldown path (handleDetectionEvent).
C1_AbortSkipsRest ==
    /\ [](abortedAt # 0 => \A i \in fetched : i <= abortedAt)
    /\ [][DetectionStep =>
            /\ consecutiveFailures' = consecutiveFailures + 1
            /\ pc' = "hde_closepage"
            /\ cdLog' = << "increment" >>
            /\ abortedAt' = idx
            /\ fetched' = fetched]_vars
    /\ [][abortedAt # 0 /\ cycleCount' = cycleCount => fetched' = fetched]_vars

\* the first of two targets ended the cycle after a clean fetch before it:
\* the second was skipped and the next cycle is scheduled
C1_Witness ==
    /\ abortedAt # 0 /\ abortedAt < NumUrls
    /\ pc = "scheduled"
    /\ consecutiveFailures = 1
    /\ cycleCount >= 2

\* the steps of one cooldown, in the order of handleDetectionEvent
CooldownSteps(doubled) ==
    << "increment", "close_page", "close_context" >>
        \o (IF doubled THEN << "double" >> ELSE << >>)
        \o << "notify", "sleep", "session", "fresh" >>

\* C2: every cooldown performs its steps in the order increment, close page
\* and context, double the cooldown if consecutiveFailures exceeds the retry
\* threshold, send the pause message, sleep, new session id, fresh context;
\* the message precedes the sleep and nothing is fetched between the teardown
\* and the fresh context.
C2_CooldownOrder ==
    /\ \E doubled \in BOOLEAN : IsPrefix(cdLog, CooldownSteps(doubled))
    /\ pc \in {"hde_notify", "hde_sleep", "hde_fresh"} =>
          /\ ("double" \in Range(cdLog))
                <=> (consecutiveFailures > config.detection.maxRetries)
          /\ "notify" \in Range(cdLog)
          /\ sd = "none" => page = "closed" /\ context = "closed"
    /\ pc \in {"goto", "classify", "extract", "alert_send"} =>
          cdLog = << >> \/ cdLog[Len(cdLog)] = "fresh"

\* a cooldown that doubled has run through all its steps
C2_Witness ==
    /\ cdLog = CooldownSteps(TRUE)
    /\ pc = "scheduled"

RECURSIVE Pow2(_)
Pow2(n) == IF n <= 0 THEN 1 ELSE 2 * Pow2(n - 1)

\* the cooldown the k-th consecutive detection event is followed by
ExpectedCooldownMs(base, maxRetries, k) ==
    IF k <= maxRetries THEN base
    ELSE Min(base * Pow2(k - maxRetries), CooldownCapMs)

\* C3: after k detection events with no clean fetch between them the cooldown
\* slept is base for k <= maxRetries and min(base * 2^(k - maxRetries),
\* 1,800,000) for k > maxRetries.
C3_BackoffGrowth ==
    pc = "hde_sleep" =>
        lastSleepMs = ExpectedCooldownMs(config.detection.cooldownMs,
                                         config.detection.maxRetries, streak)

\* the second failure past the threshold sleeps four times the base
C3_Witness ==
    /\ pc = "hde_sleep"
    /\ streak = config.detection.maxRetries + 2
    /\ lastSleepMs = 4 * config.detection.cooldownMs
    /\ lastSleepMs < CooldownCapMs

\* C4: for every base that config validation accepts, currentCooldownMs never
\* exceeds 1,800,000 ms and no cooldown sleep is longer than that.
C4_CooldownWithinCap ==
    /\ currentCooldownMs <= CooldownCapMs
    /\ lastSleepMs <= CooldownCapMs

\* C5: a fetch without a detection signal resets consecutiveFailures to 0 and
\* currentCooldownMs to the base before the data is extracted, so
\* consecutiveFailures is the number of detection events since the last
\* clean fetch.
C5_CleanFetchResets ==
    /\ [](pc \in {"extract", "alert_send"} =>
            /\ consecutiveFailures = 0
            /\ currentCooldownMs = config.detection.cooldownMs)
    /\ [](consecutiveFailures = streak)
    /\ [][pc = "classify" /\ pc' = "extract" =>
            /\ consecutiveFailures' = 0
            /\ currentCooldownMs' = config.detection.cooldownMs]_vars

\* a clean fetch right after a cooldown that had backed off past the base
C5_Witness ==
    /\ pc = "extract"
    /\ lastSleepMs > config.detection.cooldownMs
    /\ consecutiveFailures = 0

C7_NoErrorStopsLoop ==
    running => pc # "rejected"

\* C8: targets are fetched one at a time in configured order, and a new cycle
\* starts only after the previous one has visited all targets or has aborted
\* and finished its cooldown handling.
C8_OneCycleAtATime ==
    /\ [](fetched = 1..Cardinality(fetched))
    /\ [](pc \in {"goto", "classify", "extract", "alert_send"} =>
            idx = Cardinality(fetched))
    /\ [][pc = "delay" /\ pc' = "goto" => fetched' = fetched \cup {idx}]_vars
    /\ [][cycleCount' # cycleCount =>
            /\ cycleCount' = cycleCount + 1
            /\ pc \in {"startup", "scheduled"}
            /\ cycleCount >= 1 =>
                 \/ abortedAt = 0 /\ fetched = 1..NumUrls
                 \/ abortedAt # 0 /\ cdLog \in {CooldownSteps(TRUE),
                                                CooldownSteps(FALSE)}]_vars

\* the third cycle, after an aborted one, is fetching its second target
C8_Witness ==
    /\ cycleCount = 3
    /\ dailyErrors >= 1
    /\ pc = "goto"
    /\ idx = 2

\* the scenario of three targets
ScenarioStatuses == << "in_stock", "out_of_stock", "unknown" >>

\* the first poll cycle has visited every target
FirstCycleDone ==
    /\ cycleCount = 1
    /\ pc = "scheduled"
    /\ abortedAt = 0

\* the status the engine saw when it first observed url
FirstObserved(url) ==
    IF url \in DOMAIN seeded THEN seeded[url] ELSE MapGet(stateMap, url, NoState)

OneRestockForFirst ==
    /\ history[<< urls[1], "restock" >>] = 1
    /\ sent.restock[urls[1]] = 1
    /\ \A i \in 2..NumUrls :
          /\ history[<< urls[i], "restock" >>] = 0
          /\ sent.restock[urls[i]] = 0

\* C9 as stated: three targets first observed as in_stock, out_of_stock and
\* unknown (and still showing these in the first cycle) yield exactly one
\* restock History entry and one restock Notification, for the first target.
C9_FirstObservationRestock ==
    ( /\ NumUrls = 3
      /\ FirstCycleDone
      /\ \A i \in 1..NumUrls :
            /\ FirstObserved(urls[i]) = ScenarioStatuses[i]
            /\ MapGet(stateMap, urls[i], NoState) = ScenarioStatuses[i] )
    => OneRestockForFirst

\* C9 amended: three targets that the first poll cycle observes as in_stock,
\* out_of_stock and unknown, the first of them not recorded as in_stock by the
\* initial status pass, yield exactly one restock History entry and one
\* restock Notification, for the first target; the initial pass itself
\* produces neither.
C9_FirstCycleRestock ==
    /\ ( /\ NumUrls = 3
         /\ FirstCycleDone
         /\ \A i \in 1..NumUrls :
               MapGet(stateMap, urls[i], NoState) = ScenarioStatuses[i]
         /\ MapGet(seeded, urls[1], NoState) # "in_stock" )
       => OneRestockForFirst
    /\ cycleCount = 0 =>
          \A u \in Urls : /\ history[<< u, "restock" >>] = 0
                          /\ history[<< u, "sold_out" >>] = 0
                          /\ sent.restock[u] = 0

\* the first cycle saw the scenario and the initial check of the first target
\* had failed
C9_Witness ==
    /\ NumUrls = 3
    /\ FirstCycleDone
    /\ \A i \in 1..NumUrls :
          MapGet(stateMap, urls[i], NoState) = ScenarioStatuses[i]
    /\ urls[1] \notin DOMAIN seeded
    /\ DOMAIN seeded = {urls[2], urls[3]}

\* a restock History entry for url is appended in this step
RestockStep(url) ==
    history'[<< url, "restock" >>] = history[<< url, "restock" >>] + 1

\* a restock Notification for url is emitted in this step
AlertStep(url) == sent'.restock[url] = sent.restock[url] + 1

\* a restock Notification for url was emitted within the preceding window
AlertedRecently(url) ==
    /\ lastRestockAlertAt[url] # 0
    /\ now - lastRestockAlertAt[url] <= config.telegram.alertCooldownMs

\* C10: on a restock transition of url a Notification is emitted iff none for
\* url was emitted within the preceding alertCooldownMs; the limit is per url
\* and is not touched by the detection cooldown.
C10_AlertRateLimit ==
    /\ [][\A u \in Urls :
            /\ RestockStep(u) => (AlertStep(u) <=> ~AlertedRecently(u))
            /\ ~RestockStep(u) => sent'.restock[u] = sent.restock[u]]_vars
    /\ [][alertCooldowns' # alertCooldowns \/ sent'.restock # sent.restock =>
            pc = "extract"]_vars

\* both urls have alerted, and a second restock of one of them was suppressed
C10_Witness ==
    \E u, v \in Urls :
        /\ u # v
        /\ history[<< u, "restock" >>] = 2
        /\ sent.restock[u] = 1
        /\ sent.restock[v] = 1

\* a step in which an extraction settles with a status
ExtractStep == pc = "extract" /\ pc' \notin {"extract", "rejected"}

\* the status that extraction yielded
ExtractedStatus ==
    IF pc' = "alert_send" THEN newStatus' ELSE stateMap'[urls[idx]]

\* the entries of the history file for url u and kind k
EntriesOf(u, k) ==
    {i \in DOMAIN historyFile :
        historyFile[i].url = u /\ historyFile[i].transition = k}

\* C11: each restock or sold_out transition observed by the poll loop appends
\* exactly one History entry (also when the restock Notification is
\* suppressed), a transition none appends nothing, a sold_out transition
\* emits no Notification, and entries already written are never modified or
\* removed.
C11_HistoryAppendOnly ==
    /\ [][ExtractStep =>
            LET url == urls[idx]
                previous == MapGet(stateMap, url, NoState)
                kind == detectTransition(StateOrNull(previous),
                            StockStateOf(ExtractedStatus, "null", "null"))
            IN  /\ kind \in TransitionKinds =>
                      historyFile' = Append(historyFile,
                          [url |-> url, previousStatus |-> previous,
                           newStatus |-> ExtractedStatus,
                           transition |-> kind])
                /\ kind = "none" => historyFile' = historyFile
                /\ kind = "sold_out" => sent' = sent]_vars
    /\ [][IsPrefix(historyFile, historyFile')]_vars
    /\ [][historyFile' # historyFile => ExtractStep]_vars
    /\ [](\A e \in DOMAIN history :
            history[e] = Cardinality(EntriesOf(e[1], e[2])))

\* a url has restocked, sold out and restocked again, the second restock
\* without a Notification: three entries, in that order
C11_Witness ==
    \E u \in Urls :
        /\ Len(historyFile) = 3
        /\ \A i \in 1..3 : historyFile[i].url = u
        /\ << historyFile[1].transition, historyFile[2].transition,
              historyFile[3].transition >> = << "restock", "sold_out", "restock" >>
        /\ sent.restock[u] = 1

(***************************************************************************)
(* detectTransition on its own: a call with arguments drawn from every     *)
(* previous state (or none) and every current state, and its result.       *)
(***************************************************************************)
Prices == {"null", "S$59.90"}
Timestamps == {"null", "2025-01-01T00:00:00.000Z"}

StockStates ==
    {StockStateOf(s, p, t) : s \in StockStatus, p \in Prices, t \in Timestamps}

InitDetect ==
    /\ EngineInit({DefaultDetection}, << "u1" >>)
    /\ call \in [previous : StockStates \cup {NullState}, current : StockStates]
    /\ ret = << >>

CallDetectTransition ==
    /\ ret = << >>
    /\ ret' = << detectTransition(call.previous, call.current) >>
    /\ UNCHANGED << engineVars, storeVars, call >>

NextDetect == CallDetectTransition

SpecDetect == InitDetect /\ [][NextDetect]_vars

\* the status of a StockState | null, none when it is null
StatusOrNone(state) == IF state = NullState THEN "none" ELSE state.status

\* C12: detectTransition returns restock iff current is in_stock and previous
\* is absent or not in_stock, sold_out iff previous is in_stock and current is
\* not, none otherwise; a first observation is never sold_out, a change
\* between two non-buyable statuses is none, and the result depends only on
\* the two status fields.
C12_TransitionTable ==
    ret # << >> =>
        LET p == StatusOrNone(call.previous)
            c == call.current.status
            r == ret[1]
        IN  /\ r \in {"restock", "sold_out", "none"}
            /\ r = "restock" <=> (c = "in_stock" /\ p # "in_stock")
            /\ r = "sold_out" <=> (p = "in_stock" /\ c # "in_stock")
            /\ p = "none" => r # "sold_out"
            /\ (p \notin {"none", "in_stock"} /\ c # "in_stock") => r = "none"
            /\ \A p2 \in StockStates \cup {NullState}, c2 \in StockStates :
                  (StatusOrNone(p2) = p /\ c2.status = c)
                      => detectTransition(p2, c2) = r

\* out_of_stock to pre_order, with price and lastTransition differing, is none
C12_Witness ==
    /\ ret = << "none" >>
    /\ call.previous # NullState
    /\ call.previous.status = "out_of_stock"
    /\ call.current.status = "pre_order"
    /\ call.previous.price # call.current.price

(***************************************************************************)
(* browser/detection.ts, checkDetection on its own.  A page is what its    *)
(* driver calls give: content() a document or a rejection, url() a string  *)
(* or an exception; a response is null or gives a status or an exception.  *)
(* A document is kept as what the regular expressions and the length test  *)
(* of checkDetection see of it.                                            *)
(***************************************************************************)
\* the document '' that a failed page.content() is replaced by
EmptyContent ==
    [captcha |-> FALSE, h1 |-> FALSE, product |-> FALSE, length |-> 0]

\* documents: whether /baxia-dialog|nc_wrapper|captcha/i, /<h1/i and
\* /product/i match, and the length; only the empty document has length 0
Contents ==
    {EmptyContent} \cup
    [captcha : BOOLEAN, h1 : BOOLEAN, product : BOOLEAN,
     length : {499, 500, 20000}]

ProductUrl == "https://www.lazada.sg/products/i123.html"

\* urls that /sec\.|verify/i matches
VerificationUrls ==
    {"https://sec.lazada.sg/punish", "https://www.lazada.sg/verify?x=1"}

PageUrls == {ProductUrl} \cup VerificationUrls

Pages ==
    [content : Contents, contentThrows : BOOLEAN,
     url : PageUrls, urlThrows : BOOLEAN]

\* a Response | null that is null
NullResponse == [null |-> TRUE]

Responses ==
    {NullResponse} \cup
    [status : {200, 403, 429, 503}, statusThrows : BOOLEAN]

\* a DetectionResult with detected: true
Detected(signal) == [detected |-> TRUE, signal |-> signal]

NotDetected == [detected |-> FALSE, signal |-> "none"]

\* checkDetection ends with an exception instead of a DetectionResult
Thrown == [thrown |-> TRUE]

\* as checkDetection, but looking at the HTTP status before the markup
checkDetectionStatusFirst(pg, response) ==
    LET content == IF pg.contentThrows THEN EmptyContent ELSE pg.content
    IN  IF response # NullResponse /\ response.statusThrows THEN Thrown
        ELSE IF response # NullResponse /\ response.status \in {403, 429}
             THEN Detected("block_403")
        ELSE IF content.captcha THEN Detected("captcha")
        ELSE IF pg.urlThrows THEN Thrown
        ELSE IF pg.url \in VerificationUrls THEN Detected("redirect")
        ELSE IF content.length < 500 THEN Detected("empty_page")
        ELSE IF ~(content.h1 \/ content.product) THEN Detected("missing_data")
        ELSE NotDetected

\* detection.ts:9-42; only page.content() has a catch
checkDetection(pg, response) ==
    LET content == IF pg.contentThrows THEN EmptyContent ELSE pg.content
    IN  IF content.captcha THEN Detected("captcha")
        ELSE IF response # NullResponse /\ response.statusThrows THEN Thrown
        ELSE IF response # NullResponse /\ response.status \in {403, 429}
             THEN Detected("block_403")
        ELSE IF pg.urlThrows THEN Thrown
        ELSE IF pg.url \in VerificationUrls THEN Detected("redirect")
        ELSE IF content.length < 500 THEN Detected("empty_page")
        ELSE IF ~(content.h1 \/ content.product) THEN Detected("missing_data")
        ELSE NotDetected

InitClassify ==
    /\ EngineInit({DefaultDetection}, << "u1" >>)
    /\ call \in [page : Pages, response : Responses]
    /\ ret = << >>

CallCheckDetection ==
    /\ ret = << >>
    /\ ret' = << checkDetection(call.page, call.response) >>
    /\ UNCHANGED << engineVars, storeVars, call >>

NextClassify == CallCheckDetection

SpecClassify == InitClassify /\ [][NextClassify]_vars

\* the checks in their priority
DetectionChecks ==
    << "captcha", "block_403", "redirect", "empty_page", "missing_data" >>

\* the document the checks work on: '' when it could not be read
ContentRead(pg) == IF pg.contentThrows THEN EmptyContent ELSE pg.content

\* whether a check matches; a check whose reading fails does not match
CheckMatches(check, pg, response) ==
    CASE check = "captcha" -> ContentRead(pg).captcha
      [] check = "block_403" ->
            /\ response # NullResponse
            /\ ~response.statusThrows
            /\ response.status \in {403, 429}
      [] check = "redirect" -> ~pg.urlThrows /\ pg.url \in VerificationUrls
      [] check = "empty_page" -> ContentRead(pg).length < 500
      [] check = "missing_data" ->
            ~(ContentRead(pg).h1 \/ ContentRead(pg).product)

\* the verdict of the first matching check, none when no check matches
FirstMatch(pg, response) ==
    LET matching == {i \in DOMAIN DetectionChecks :
                        CheckMatches(DetectionChecks[i], pg, response)}
    IN  IF matching = {} THEN NotDetected
        ELSE Detected(DetectionChecks[CHOOSE i \in matching :
                                        \A j \in matching : i <= j])

\* C13: a verdict of checkDetection is the signal of the first matching check
\* in the priority captcha, block_403 (403 or 429), redirect, empty_page,
\* missing_data, and none only when no check matches; without a response the
\* status check is skipped.
C13_FirstMatchWins ==
    (ret # << >> /\ ret[1] # Thrown) =>
        /\ ret[1] = FirstMatch(call.page, call.response)
        /\ (call.response = NullResponse) => ret[1].signal # "block_403"

\* challenge markup served with status 403 is classified captcha
C13_Witness ==
    /\ ret = << Detected("captcha") >>
    /\ call.response # NullResponse
    /\ call.response.status = 403
    /\ ~call.page.contentThrows

\* C14: a check whose reading throws (page content, response status, url) is
\* treated as not matched, classification goes on with the remaining checks
\* and always ends with a verdict.
C14_FailingCheckNotMatched ==
    ret # << >> =>
        /\ ret[1] # Thrown
        /\ ret[1] = FirstMatch(call.page, call.response)

\* the initial status pass has visited every target (no shutdown cut it short)
InitialPassComplete ==
    /\ sd = "none"
    /\ pc \notin {"launch", "fresh0", "init"}

\* C15: once the initial pass is complete the StockState table holds exactly
\* one entry for every configured target, with status unknown for a target
\* whose initial fetch or extraction failed, and never a key that is not a
\* configured target.
C15_OneEntryPerTarget ==
    /\ DOMAIN stateMap \subseteq Urls
    /\ InitialPassComplete => DOMAIN stateMap = Urls
    /\ (InitialPassComplete /\ cycleCount = 0) =>
          \A u \in Urls : MapGet(stateMap, u, NoState) \in StockStatus

RotationPcs == {"rot_closepage", "rot_closectx", "rot_fresh"}

\* C16: a cycle starts with a rotation iff its number modulo
\* contextRotationCycles is zero; the rotation closes page and context, draws
\* a session id and only then creates the fresh context and page, all before
\* the first fetch of the cycle, and the engine never has two live contexts.
C16_RotationAtCycleStart ==
    /\ [][cycleCount' # cycleCount =>
            (pc' = "rot_closepage"
                <=> cycleCount' % config.monitoring.contextRotationCycles = 0)]_vars
    /\ [][(pc' \in RotationPcs /\ pc \notin RotationPcs) =>
            cycleCount' = cycleCount + 1 /\ pc' = "rot_closepage"]_vars
    /\ [][(pc = "rot_closepage" /\ pc' # pc) =>
            pc' = "rot_closectx" /\ page' = "closed"]_vars
    /\ [][(pc = "rot_closectx" /\ pc' # pc) =>
            /\ pc' = "rot_fresh"
            /\ context' = "closed"
            /\ sessionId' = sessionId + 1]_vars
    /\ [][(pc = "rot_fresh" /\ pc' # pc /\ sd = "none") =>
            /\ pc' = "delay" /\ idx' = 1
            /\ context' = "open" /\ page' = "open"
            /\ liveContexts' = 1]_vars
    /\ [](pc \in RotationPcs => fetched = {})
    /\ [](pc = "rot_fresh" =>
            page = "closed" /\ context = "closed" /\ liveContexts = 0)
    /\ [](liveContexts <= 1)

\* the second cycle has rotated and is fetching its first target; the first
\* cycle did not rotate
C16_Witness ==
    /\ cycleCount = 2
    /\ pc = "goto"
    /\ idx = 1
    /\ sessionId = 2
    /\ liveContexts = 1
    /\ dailyErrors = 0

\* a step in which the poll loop issues page.goto
FetchStep == pc' = "goto" /\ pc # "goto"

\* C17: every fetch of the poll loop comes right after a wait of
\* max(5000, basePollIntervalMs + j) ms with -jitterMs <= j <= jitterMs, which
\* is never below 5000 ms; no fetch is issued without that wait before it.
C17_WaitBeforeFetch ==
    /\ [][FetchStep =>
            /\ pc = "delay"
            /\ now' - now >= 5000
            /\ \E j \in (0 - config.monitoring.jitterMs)..config.monitoring.jitterMs :
                  now' - now = Max(5000, config.monitoring.basePollIntervalMs + j)]_vars
    /\ [][fetchCount' # fetchCount =>
            FetchStep /\ fetchCount' = fetchCount + 1]_vars
    /\ [][(pc = "delay" /\ pc' # pc) => now' > now]_vars

\* with base 4500 and jitter 1000 one wait was raised to the floor and the
\* other, with the largest jitter, was not
C17_Witness ==
    /\ config.monitoring.basePollIntervalMs = 4500
    /\ fetchCount = 2
    /\ pc = "goto"
    /\ now = StartTime + 5000 + 5499

\* everything shutdown can do, in its order
ShutdownSteps ==
    << "stop_timer", "close_page", "close_context", "close_browser", "exit" >>

\* the positions of ShutdownSteps at which the steps of log stand
StepPositions(log) ==
    [i \in DOMAIN log |->
        CHOOSE k \in DOMAIN ShutdownSteps : ShutdownSteps[k] = log[i]]

\* the step shutdown takes next when it has got as far as stage: the first
\* resource after stage that exists, or the exit
ExpectedShutdownStep(stage) ==
    IF stage = "none" /\ page # "null" THEN "close_page"
    ELSE IF stage \in {"none", "page"} /\ context # "null" THEN "close_context"
    ELSE IF stage \in {"none", "page", "context"} /\ browser # "null"
         THEN "close_browser"
    ELSE "exit"

ShutdownProgress ==
    \/ ShutdownSignal
    \/ ShutdownPageClosed
    \/ ShutdownContextClosed
    \/ ShutdownExit

\* C18: a shutdown signal is taken in every engine state; shutdown stops the
\* digest timer first (if one is scheduled), then closes page, context and
\* browser in that order, skipping a resource that does not exist and going
\* on when one is closed already, and exits; none of its steps waits for the
\* poll flow (a navigation, a jitter delay or a cooldown sleep in progress).
C18_ShutdownOrder ==
    /\ [](Range(sdLog) \subseteq Range(ShutdownSteps))
    /\ [](\A i, j \in DOMAIN sdLog :
            i < j => StepPositions(sdLog)[i] < StepPositions(sdLog)[j])
    /\ [](sd = "exited" <=> (sdLog # << >> /\ sdLog[Len(sdLog)] = "exit"))
    /\ [](Alive => ENABLED ShutdownProgress)
    /\ [][sd' # sd =>
            /\ pc' = pc
            /\ running' = FALSE
            /\ sdLog' = sdLog
                  \o (IF sd = "none" /\ cronTask = "scheduled"
                      THEN << "stop_timer" >> ELSE << >>)
                  \o << ExpectedShutdownStep(sd) >>
            /\ (sd = "none" /\ cronTask = "scheduled") => cronTask' = "stopped"
            /\ ExpectedShutdownStep(sd) = "close_page" => page' = "closed"
            /\ ExpectedShutdownStep(sd) = "close_context" => context' = "closed"
            /\ ExpectedShutdownStep(sd) = "close_browser" => browser' = "closed"
            /\ ExpectedShutdownStep(sd) = "exit" => sd' = "exited"]_vars
    /\ [][sdLog' # sdLog => sd' # sd]_vars

\* a signal during a cooldown sleep, page and context closed already: all
\* five steps were taken and the process exited with the sleep still pending
C18_Witness ==
    /\ sdLog = ShutdownSteps
    /\ sd = "exited"
    /\ pc = "hde_sleep"

\* a step of startMonitoring or pollCycle
PollProgress ==
    \/ LaunchBrowser \/ InitialContext \/ InitialCheck \/ StartPolling
    \/ TimerPollCycle \/ RotateClosePage \/ RotateCloseContext \/ RotateFresh
    \/ DelayElapsed \/ Navigate \/ Classify \/ Extract \/ AlertSent
    \/ HdeClosePage \/ HdeCloseContext \/ HdeNotified \/ HdeSleepElapsed
    \/ HdeFresh

\* the poll flow has a step to take (the model stops following it at
\* MaxFetches)
PollFlowPending ==
    /\ Alive
    /\ pc \notin {"returned", "rejected"}
    /\ (pc = "delay" /\ running) => fetchCount < MaxFetches

DailyCounters == << dailyRestocks, dailySoldOuts, dailyErrors >>

\* C19: a firing of the digest sends one summary carrying the restock,
\* sold-out and error counters as they are then, and when the send has
\* settled sets the three counters to 0; the digest changes nothing else of
\* the engine, and the poll flow takes its steps (fetches, detection
\* handling) while the send is pending.
C19_DigestConcurrent ==
    /\ [][digests' # digests =>
            /\ dg = "idle" /\ dg' = "sending"
            /\ digests' = Append(digests,
                              [urlsMonitored |-> NumUrls,
                               restocksDetected |-> dailyRestocks,
                               soldOuts |-> dailySoldOuts,
                               errorsEncountered |-> dailyErrors])
            /\ DailyCounters' = DailyCounters]_vars
    /\ [][(dg = "sending" /\ dg' # dg) =>
            /\ dg' = "idle"
            /\ DailyCounters' = << 0, 0, 0 >>
            /\ digests' = digests]_vars
    /\ [][dg' # dg =>
            /\ pc' = pc /\ idx' = idx /\ sd' = sd
            /\ stateMap' = stateMap /\ historyFile' = historyFile
            /\ sent' = sent
            /\ consecutiveFailures' = consecutiveFailures
            /\ currentCooldownMs' = currentCooldownMs]_vars
    /\ [](PollFlowPending => ENABLED PollProgress)
    /\ [][(sd = "none" /\ \E i \in 1..3 : DailyCounters'[i] < DailyCounters[i])
            => dg = "sending" /\ dg' = "idle"]_vars

\* while the first digest, which carried no error, was being sent, the poll
\* loop fetched a target, met a detection and started its cooldown sleep
C19_Witness ==
    /\ dg = "sending"
    /\ Len(digests) = 1
    /\ digests[1].errorsEncountered = 0
    /\ dailyErrors = 1
    /\ pc = "hde_sleep"

(***************************************************************************)
(* crypto/vault.ts.  A string is the sequence of its UTF-16 code units, a  *)
(* Buffer the sequence of its bytes, a base64 string the sequence of its   *)
(* characters (0..63 the digits, 64 the padding '=').  scrypt and          *)
(* AES-256-GCM are kept as what the vault relies on: the key is a function *)
(* of passphrase and salt, the cipher adds a keystream given by key and    *)
(* nonce to the bytes, and the tag is a function of key, nonce and         *)
(* ciphertext; the functions themselves are stand-ins.                     *)
(***************************************************************************)
SALT_LEN == 32
IV_LEN == 12
TAG_LEN == 16

\* code units the strings are made of: A, e-acute (2 bytes in UTF-8), the
\* euro sign (3 bytes), a high and a low surrogate (U+1F600 when paired)
CodeUnits == {65, 233, 8364, 55357, 56832}

IsHighSurrogate(u) == u >= 55296 /\ u <= 56319
IsLowSurrogate(u) == u >= 56320 /\ u <= 57343

RECURSIVE SeqsUpTo(_, _)
SeqsUpTo(S, n) ==
    IF n = 0 THEN {<< >>}
    ELSE SeqsUpTo(S, n - 1) \cup
         {Append(q, x) : q \in {r \in SeqsUpTo(S, n - 1) : Len(r) = n - 1},
                         x \in S}

Plaintexts == SeqsUpTo(CodeUnits, MaxPlaintextLen)

Passphrases == { << 65 >>, << 65, 8364 >> }

\* values of randomBytes(SALT_LEN) and randomBytes(IV_LEN) the model draws
Salts == { [i \in 1..SALT_LEN |-> 0], [i \in 1..SALT_LEN |-> (37 * i) % 256] }
Ivs == { [i \in 1..IV_LEN |-> 255], [i \in 1..IV_LEN |-> (11 * i) % 256] }

Tail2(q, n) == SubSeq(q, n + 1, Len(q))

\* Buffer.from(string, 'utf8'): an unpaired surrogate is written as U+FFFD
RECURSIVE Utf8Encode(_)
Utf8Encode(str) ==
    IF str = << >> THEN << >>
    ELSE LET u == str[1]
         IN  IF u < 128 THEN << u >> \o Utf8Encode(Tail(str))
             ELSE IF u < 2048
             THEN << 192 + (u \div 64), 128 + (u % 64) >>
                      \o Utf8Encode(Tail(str))
             ELSE IF IsHighSurrogate(u) /\ Len(str) >= 2
                                       /\ IsLowSurrogate(str[2])
             THEN LET cp == 65536 + (u - 55296) * 1024 + (str[2] - 56320)
                  IN  << 240 + (cp \div 262144),
                         128 + ((cp \div 4096) % 64),
                         128 + ((cp \div 64) % 64),
                         128 + (cp % 64) >> \o Utf8Encode(Tail2(str, 2))
             ELSE IF IsHighSurrogate(u) \/ IsLowSurrogate(u)
             THEN << 239, 191, 189 >> \o Utf8Encode(Tail(str))
             ELSE << 224 + (u \div 4096), 128 + ((u \div 64) % 64),
                     128 + (u % 64) >> \o Utf8Encode(Tail(str))

IsContinuation(b) == b >= 128 /\ b < 192

RECURSIVE Utf8Decode(_)

\* as Utf8Decode, but taking every byte for a character
Latin1Decode(bytes) == bytes

\* buffer.toString('utf8'): a byte that starts no complete sequence is read
\* as U+FFFD
Utf8Decode(bytes) ==
    IF bytes = << >> THEN << >>
    ELSE LET b == bytes[1]
             n == Len(bytes)
         IN  IF b < 128 THEN << b >> \o Utf8Decode(Tail(bytes))
             ELSE IF b >= 192 /\ b < 224 /\ n >= 2 /\ IsContinuation(bytes[2])
             THEN << (b - 192) * 64 + (bytes[2] - 128) >>
                      \o Utf8Decode(Tail2(bytes, 2))
             ELSE IF b >= 224 /\ b < 240 /\ n >= 3
                     /\ IsContinuation(bytes[2]) /\ IsContinuation(bytes[3])
             THEN << (b - 224) * 4096 + (bytes[2] - 128) * 64
                        + (bytes[3] - 128) >>
                      \o Utf8Decode(Tail2(bytes, 3))
             ELSE IF b >= 240 /\ b < 248 /\ n >= 4
                     /\ IsContinuation(bytes[2]) /\ IsContinuation(bytes[3])
                     /\ IsContinuation(bytes[4])
             THEN LET cp == (b - 240) * 262144 + (bytes[2] - 128) * 4096
                              + (bytes[3] - 128) * 64 + (bytes[4] - 128)
                  IN  << 55296 + ((cp - 65536) \div 1024),
                         56320 + ((cp - 65536) % 1024) >>
                          \o Utf8Decode(Tail2(bytes, 4))
             ELSE << 65533 >> \o Utf8Decode(Tail(bytes))

\* buffer.toString('base64')
RECURSIVE Base64Encode(_)
Base64Encode(bytes) ==
    IF bytes = << >> THEN << >>
    ELSE IF Len(bytes) = 1
    THEN << bytes[1] \div 4, (bytes[1] % 4) * 16, 64, 64 >>
    ELSE IF Len(bytes) = 2
    THEN << bytes[1] \div 4,
            (bytes[1] % 4) * 16 + (bytes[2] \div 16),
            (bytes[2] % 16) * 4, 64 >>
    ELSE << bytes[1] \div 4,
            (bytes[1] % 4) * 16 + (bytes[2] \div 16),
            (bytes[2] % 16) * 4 + (bytes[3] \div 64),
            bytes[3] % 64 >> \o Base64Encode(Tail2(bytes, 3))

\* Buffer.from(string, 'base64'); decoding ends at the padding
RECURSIVE Base64Decode(_)
Base64Decode(chars) ==
    IF Len(chars) < 2 \/ chars[1] = 64 \/ chars[2] = 64 THEN << >>
    ELSE LET b1 == chars[1] * 4 + (chars[2] \div 16)
         IN  IF Len(chars) < 3 \/ chars[3] = 64 THEN << b1 >>
             ELSE LET b2 == (chars[2] % 16) * 16 + (chars[3] \div 4)
                  IN  IF Len(chars) < 4 \/ chars[4] = 64 THEN << b1, b2 >>
                      ELSE << b1, b2, (chars[3] % 4) * 64 + chars[4] >>
                               \o Base64Decode(Tail2(chars, 4))

RECURSIVE Checksum(_)
Checksum(bytes) ==
    IF bytes = << >> THEN 7
    ELSE (31 * Checksum(Tail(bytes)) + bytes[1]) % 65521

\* scryptSync(masterPassword, salt, KEY_LEN, ...): the key, as a number
scryptSync(masterPassword, salt) ==
    (Checksum(Utf8Encode(masterPassword)) * 257 + Checksum(salt)) % 65521

\* the keystream byte of AES-256-GCM for key, nonce and position
KeystreamByte(key, iv, i) == (key + 13 * Checksum(iv) + 101 * i) % 256

\* cipher.update(...) and cipher.final()
GcmEncrypt(key, iv, bytes) ==
    [i \in 1..Len(bytes) |-> (bytes[i] + KeystreamByte(key, iv, i)) % 256]

\* decipher.update(...) and decipher.final()
GcmDecrypt(key, iv, bytes) ==
    [i \in 1..Len(bytes) |->
        (bytes[i] + 256 - KeystreamByte(key, iv, i)) % 256]

\* the authentication hash of GCM: a polynomial over a prime field, so that
\* two inputs differing in one byte never have the same hash
GhashPrime == 16777213

RECURSIVE Ghash(_)
Ghash(bytes) ==
    IF bytes = << >> THEN 7
    ELSE (31 * Ghash(Tail(bytes)) + bytes[1] + 1) % GhashPrime

\* cipher.getAuthTag(): the first three bytes are the hash of key, nonce
\* and ciphertext, the others are derived from it
GcmTag(key, iv, ciphertext) ==
    LET h == Ghash(<< key \div 256, key % 256 >> \o iv \o ciphertext)
    IN  [i \in 1..TAG_LEN |->
            IF i = 1 THEN h % 256
            ELSE IF i = 2 THEN (h \div 256) % 256
            ELSE IF i = 3 THEN h \div 65536
            ELSE (h + 37 * i) % 256]

\* what a call of the vault ends with: a returned string or an exception
Returned(str) == [value |-> str]

\* the exception of decipher.final() when the tag does not match
AuthFailure == [thrown |-> "Unsupported state or unable to authenticate data"]

\* the exception of createDecipheriv when the nonce is empty
InvalidIv == [thrown |-> "Invalid initialization vector"]

\* the exception of decipher.setAuthTag when the tag has no valid length
InvalidTagLength == [thrown |-> "Invalid authentication tag length"]

\* the tag lengths decipher.setAuthTag accepts for a GCM cipher created
\* without the authTagLength option
ValidGcmTagLengths == {4, 8, 12, 13, 14, 15, 16}

\* buf.subarray(start, end): both ends are clamped to the buffer
Subarray(buf, start, end) ==
    IF start >= Len(buf) THEN << >>
    ELSE SubSeq(buf, start + 1, IF end > Len(buf) THEN Len(buf) ELSE end)

\* vault.ts, encrypt, with the two randomBytes results as arguments
encrypt(plaintext, masterPassword, salt, iv) ==
    LET key == scryptSync(masterPassword, salt)
        ciphertext == GcmEncrypt(key, iv, Utf8Encode(plaintext))
        authTag == GcmTag(key, iv, ciphertext)
    IN  Base64Encode(salt \o iv \o authTag \o ciphertext)

\* vault.ts, decrypt: the tag that was read is compared with as many bytes
\* of the computed tag as it has
decrypt(encoded, masterPassword) ==
    LET buf == Base64Decode(encoded)
        salt == Subarray(buf, 0, SALT_LEN)
        iv == Subarray(buf, SALT_LEN, SALT_LEN + IV_LEN)
        authTag == Subarray(buf, SALT_LEN + IV_LEN,
                            SALT_LEN + IV_LEN + TAG_LEN)
        ciphertext == Subarray(buf, SALT_LEN + IV_LEN + TAG_LEN, Len(buf))
        key == scryptSync(masterPassword, salt)
    IN  IF iv = << >> THEN InvalidIv
        ELSE IF Len(authTag) \notin ValidGcmTagLengths THEN InvalidTagLength
        ELSE IF authTag # SubSeq(GcmTag(key, iv, ciphertext), 1, Len(authTag))
        THEN AuthFailure
        ELSE Returned(Utf8Decode(GcmDecrypt(key, iv, ciphertext)))

InitVault ==
    /\ EngineInit({DefaultDetection}, << "u1" >>)
    /\ call \in [plaintext : Plaintexts, masterPassword : Passphrases]
    /\ ret = << >>

CallEncrypt ==
    /\ call # << >> /\ ret = << >>
    /\ \E salt \in Salts, iv \in Ivs :
          ret' = << encrypt(call.plaintext, call.masterPassword, salt, iv) >>
    /\ UNCHANGED << engineVars, storeVars, call >>

CallDecrypt ==
    /\ Len(ret) = 1
    /\ ret' = Append(ret, decrypt(ret[1], call.masterPassword))
    /\ UNCHANGED << engineVars, storeVars, call >>

NextVault == CallEncrypt \/ CallDecrypt

SpecVault == InitVault /\ [][NextVault]_vars

\* no surrogate code unit of str is unpaired
WellFormed(str) ==
    \A i \in DOMAIN str :
        /\ IsHighSurrogate(str[i]) =>
              (i < Len(str) /\ IsLowSurrogate(str[i + 1]))
        /\ IsLowSurrogate(str[i]) => (i > 1 /\ IsHighSurrogate(str[i - 1]))

\* str with U+FFFD in the place of every unpaired surrogate
Scrubbed(str) ==
    [i \in DOMAIN str |->
        IF \/ IsHighSurrogate(str[i])
                /\ ~(i < Len(str) /\ IsLowSurrogate(str[i + 1]))
           \/ IsLowSurrogate(str[i])
                /\ ~(i > 1 /\ IsHighSurrogate(str[i - 1]))
        THEN 65533 ELSE str[i]]

\* C20 as stated: for every plaintext P and passphrase K,
\* decrypt(encrypt(P, K), K) returns exactly P.
C20_RoundTrip ==
    Len(ret) = 2 => ret[2] = Returned(call.plaintext)

\* C20 amended: for every passphrase K and every plaintext P in which no
\* surrogate code unit is unpaired, decrypt(encrypt(P, K), K) returns exactly
\* P; for any other P it returns P with U+FFFD in the place of each unpaired
\* surrogate.
C20_RoundTripWellFormed ==
    Len(ret) = 2 =>
        /\ WellFormed(call.plaintext) => ret[2] = Returned(call.plaintext)
        /\ ret[2] = Returned(Scrubbed(call.plaintext))

\* a plaintext of an astral character (a surrogate pair) and the euro sign
\* has come back from the vault
C20_Witness ==
    /\ Len(ret) = 2
    /\ call.plaintext = << 55357, 56832, 8364 >>
    /\ ret[2] = Returned(call.plaintext)

(***************************************************************************)
(* decrypt on records it was not given by encrypt: every record of encrypt *)
(* is presented again with another passphrase, with one byte of its tag or *)
(* ciphertext changed, or cut short.                                       *)
(***************************************************************************)

\* the amounts a byte of the record is changed by
ByteDeltas == {1, 128}

\* the bytes of a VaultRecord, as decrypt reads them
RecordBytes(encoded) == Base64Decode(encoded)

\* the record with delta added to byte j
AlteredRecord(encoded, j, delta) ==
    LET bytes == RecordBytes(encoded)
    IN  Base64Encode([i \in 1..Len(bytes) |->
            IF i = j THEN (bytes[i] + delta) % 256 ELSE bytes[i]])

\* the first n characters of the record
TruncatedRecord(encoded, n) == SubSeq(encoded, 1, n)

\* the argument presented to decrypt and what decrypt ended with
Presented(case, encoded, masterPassword) ==
    << [case |-> case, encoded |-> encoded, masterPassword |-> masterPassword],
       decrypt(encoded, masterPassword) >>

DecryptWrongPassphrase ==
    /\ Len(ret) = 1
    /\ \E masterPassword \in Passphrases \ {call.masterPassword} :
          ret' = ret \o Presented("wrong_passphrase", ret[1], masterPassword)
    /\ UNCHANGED << engineVars, storeVars, call >>

DecryptAltered ==
    /\ Len(ret) = 1
    /\ \E j \in (SALT_LEN + IV_LEN + 1)..Len(RecordBytes(ret[1])),
          delta \in ByteDeltas :
          ret' = ret \o Presented("altered", AlteredRecord(ret[1], j, delta),
                                  call.masterPassword)
    /\ UNCHANGED << engineVars, storeVars, call >>

DecryptTruncated ==
    /\ Len(ret) = 1
    /\ \E n \in 0..(Len(ret[1]) - 1) :
          ret' = ret \o Presented("truncated", TruncatedRecord(ret[1], n),
                                  call.masterPassword)
    /\ UNCHANGED << engineVars, storeVars, call >>

NextTamper ==
    \/ CallEncrypt
    \/ DecryptWrongPassphrase
    \/ DecryptAltered
    \/ DecryptTruncated

SpecTamper == InitVault /\ [][NextTamper]_vars

\* C21: decrypting a VaultRecord with another passphrase than the one it was
\* encrypted with, with a byte of its tag or ciphertext altered, or cut short,
\* ends in an exception; decrypt returns no plaintext in any of these cases.
C21_FailsClosed ==
    Len(ret) = 3 => "thrown" \in DOMAIN ret[3]

(***************************************************************************)
(* encrypt called again and again with the same plaintext and passphrase,  *)
(* as AccountStore.save and saveSession do.  randomBytes is the system's   *)
(* random generator: it is taken never to give a block it gave before.     *)
(***************************************************************************)

\* the blocks randomBytes has given to the calls of encrypt so far
DrawnBlocks == { ret[i].salt : i \in DOMAIN ret } \cup
               { ret[i].iv : i \in DOMAIN ret }

\* randomBytes(size): any block of that size not given before
randomBytes(size) ==
    { block \in Salts \cup Ivs : Len(block) = size /\ block \notin DrawnBlocks }

\* one encryption: what was drawn, the key that was derived, the record
Encryption(plaintext, masterPassword, salt, iv) ==
    [salt |-> salt, iv |-> iv, key |-> scryptSync(masterPassword, salt),
     record |-> encrypt(plaintext, masterPassword, salt, iv)]

\* as CallEncryptAgain, with one nonce for all calls
CallEncryptStaticNonce ==
    /\ \E salt \in randomBytes(SALT_LEN) :
          ret' = Append(ret, Encryption(call.plaintext, call.masterPassword,
                                        salt, [i \in 1..IV_LEN |-> 255]))
    /\ UNCHANGED << engineVars, storeVars, call >>

CallEncryptAgain ==
    /\ \E salt \in randomBytes(SALT_LEN), iv \in randomBytes(IV_LEN) :
          ret' = Append(ret, Encryption(call.plaintext, call.masterPassword,
                                        salt, iv))
    /\ UNCHANGED << engineVars, storeVars, call >>

NextFresh == CallEncryptAgain

SpecFresh == InitVault /\ [][NextFresh]_vars

\* C22: any two calls of encrypt, also with the same plaintext and
\* passphrase, have different salts and different nonces, which are the ones
\* written into their records; so their records differ and no pair of key
\* and nonce is used by two encryptions.
C22_FreshSaltAndNonce ==
    /\ \A i \in DOMAIN ret :
          /\ Subarray(RecordBytes(ret[i].record), 0, SALT_LEN) = ret[i].salt
          /\ Subarray(RecordBytes(ret[i].record), SALT_LEN, SALT_LEN + IV_LEN)
                = ret[i].iv
    /\ \A i, j \in DOMAIN ret :
          i < j =>
             /\ ret[i].salt # ret[j].salt
             /\ ret[i].iv # ret[j].iv
             /\ ret[i].record # ret[j].record
             /\ << ret[i].key, ret[i].iv >> # << ret[j].key, ret[j].iv >>

\* the plaintext "A" has been encrypted twice with the same passphrase
C22_Witness ==
    /\ Len(ret) = 2
    /\ call.plaintext = << 65 >>
    /\ ret[1].record # ret[2].record

(***************************************************************************)
(* The account store (account/store.ts) and the session files              *)
(* (auth/session.ts).  A file is its text and its permission bits; the     *)
(* accounts file holds encrypt(JSON.stringify(accounts), masterPassword).  *)
(* Every command of the cli makes its own AccountStore with the passphrase *)
(* it was given, so each operation draws its passphrase.                   *)
(***************************************************************************)

\* permission bits: 0o600 and the 0o666 a file is created with
OwnerOnly == {"ur", "uw"}
CreateBits == {"ur", "uw", "gr", "gw", "or", "ow"}

\* the bits the process's umask clears: 0o022 and 0o077
Umasks == { {"gw", "ow"}, {"gr", "gw", "or", "ow"} }

FileOf(content, mode) == [content |-> content, mode |-> mode]

existsSync(file) == file # NoFile

\* writeFileSync(path, data, 'utf-8'): a new file gets 0o666 less the umask,
\* an existing file keeps its mode
writeFileSync(file, data, umask) ==
    FileOf(data, IF existsSync(file) THEN file.mode ELSE CreateBits \ umask)

chmodSync(file, mode) == FileOf(file.content, mode)

\* readFileSync(path, 'utf-8')
readFileSync(file) == file.content

\* the values of an Account's fields other than id and loginId; a proxy
\* object counts as one value
AtomList ==
    << "null", "phone", "proxy1", "visa", "master", "t1", "t2" >>
        \o SessionFileNames

Atoms == { AtomList[i] : i \in DOMAIN AtomList }

\* the text JSON.stringify gives a field value, cut down to one code unit
AtomCode(atom) == 96 + (CHOOSE i \in DOMAIN AtomList : AtomList[i] = atom)

IsAtomCode(u) == u > 96 /\ u <= 96 + Len(AtomList)

AtomOf(u) == AtomList[u - 96]

IdCode(id) == 48 + id

IsIdCode(u) == u > 48 /\ u <= 57

\* the fields of an Account after id and loginId, in the order of store.ts
AtomFields ==
    << "loginType", "proxy", "paymentLabel", "createdAt", "lastLoginAt",
       "sessionFile" >>

\* JSON.stringify of one account: the id, the login identifier up to a comma,
\* then one code unit for each other field
AccountText(account) ==
    << IdCode(account.id) >> \o account.loginId \o << 44 >>
        \o [i \in DOMAIN AtomFields |-> AtomCode(account[AtomFields[i]])]

RECURSIVE AccountsText(_)
AccountsText(accounts) ==
    IF accounts = << >> THEN << >>
    ELSE AccountText(accounts[1]) \o AccountsText(Tail(accounts))

\* JSON.stringify(accounts, null, 2), in the cut-down text
JSONstringify(accounts) == << 91 >> \o AccountsText(accounts) \o << 93 >>

\* the first position of code unit u in text, 0 if there is none
IndexOf(text, u) ==
    IF \E i \in DOMAIN text : text[i] = u
    THEN CHOOSE i \in DOMAIN text :
            text[i] = u /\ \A j \in 1..(i - 1) : text[j] # u
    ELSE 0

\* the text of the first account of body ends here (0: body starts with none)
AccountEnd(body) ==
    LET comma == IndexOf(body, 44)
        end == comma + Len(AtomFields)
    IN  IF /\ comma >= 2
           /\ end <= Len(body)
           /\ IsIdCode(body[1])
           /\ \A i \in (comma + 1)..end : IsAtomCode(body[i])
        THEN end ELSE 0

RECURSIVE IsAccountsText(_)
IsAccountsText(body) ==
    \/ body = << >>
    \/ /\ AccountEnd(body) > 0
       /\ IsAccountsText(SubSeq(body, AccountEnd(body) + 1, Len(body)))

ParseAccount(text) ==
    LET comma == IndexOf(text, 44)
    IN  [id |-> text[1] - 48,
         loginId |-> SubSeq(text, 2, comma - 1),
         loginType |-> AtomOf(text[comma + 1]),
         proxy |-> AtomOf(text[comma + 2]),
         paymentLabel |-> AtomOf(text[comma + 3]),
         createdAt |-> AtomOf(text[comma + 4]),
         lastLoginAt |-> AtomOf(text[comma + 5]),
         sessionFile |-> AtomOf(text[comma + 6])]

RECURSIVE ParseAccounts(_)
ParseAccounts(body) ==
    IF body = << >> THEN << >>
    ELSE << ParseAccount(SubSeq(body, 1, AccountEnd(body))) >>
            \o ParseAccounts(SubSeq(body, AccountEnd(body) + 1, Len(body)))

\* the exception of JSON.parse
SyntaxError == [thrown |-> "SyntaxError"]

\* JSON.parse(json) as Account[]
JSONparse(json) ==
    IF /\ Len(json) >= 2
       /\ json[1] = 91
       /\ json[Len(json)] = 93
       /\ IsAccountsText(SubSeq(json, 2, Len(json) - 1))
    THEN Returned(ParseAccounts(SubSeq(json, 2, Len(json) - 1)))
    ELSE SyntaxError

IsThrown(outcome) == "thrown" \in DOMAIN outcome

\* what a function without a value to return ends with
Undefined == [undefined |-> TRUE]

\* the new accounts the cli asks the store to add
Draft9 ==
    [loginId |-> << 57 >>, loginType |-> "phone", proxy |-> "null",
     paymentLabel |-> "visa"]

Draft1 ==
    [loginId |-> << 49 >>, loginType |-> "phone", proxy |-> "proxy1",
     paymentLabel |-> "master"]

Draft1A ==
    [loginId |-> << 49, 65 >>, loginType |-> "phone", proxy |-> "null",
     paymentLabel |-> "visa"]

\* the fields update is asked to replace
LabelUpdate == [paymentLabel |-> "master"]

LoginIdUpdate == [loginId |-> << 50 >>, proxy |-> "null"]

\* an edit that is confirmed without a change to Draft9
SameLabelUpdate == [paymentLabel |-> Draft9.paymentLabel]

\* the identifiers accounts are looked up by: "1", "2", "9", "1A", "A", "0"
Identifiers ==
    { << 49 >>, << 50 >>, << 57 >>, << 49, 65 >>, << 65 >>, << 48 >> }

\* new Date().toISOString()
IsoTimes == {"t1"}

\* JSON.stringify(await context.storageState())
SessionStates == { << 123, 125 >> }

\* as load, but giving no accounts when the file cannot be decrypted
loadEmptyOnError(masterPassword) ==
    IF ~existsSync(storeFile) THEN Returned(<< >>)
    ELSE LET json == decrypt(readFileSync(storeFile), masterPassword)
         IN  IF IsThrown(json) THEN Returned(<< >>) ELSE JSONparse(json.value)

\* store.ts, load
load(masterPassword) ==
    IF ~existsSync(storeFile) THEN Returned(<< >>)
    ELSE LET json == decrypt(readFileSync(storeFile), masterPassword)
         IN  IF IsThrown(json) THEN json ELSE JSONparse(json.value)

\* accounts.findIndex((a) => a.id === id), positions from 1, 0 for none
findIndex(accounts, id) ==
    IF \E i \in DOMAIN accounts : accounts[i].id = id
    THEN CHOOSE i \in DOMAIN accounts :
            accounts[i].id = id /\ \A j \in 1..(i - 1) : accounts[j].id # id
    ELSE 0

\* as Merged, but forgetting when the account was last logged in
MergedAsNew(account, updates) ==
    [f \in DOMAIN account |->
        IF f \in DOMAIN updates THEN updates[f]
        ELSE IF f = "lastLoginAt" THEN "null" ELSE account[f]]

\* { ...account, ...updates }
Merged(account, updates) ==
    [f \in DOMAIN account |->
        IF f \in DOMAIN updates THEN updates[f] ELSE account[f]]

IsDigit(u) == u >= 48 /\ u <= 57

WhiteSpace == {9, 10, 11, 12, 13, 32, 160}

RECURSIVE TrimStart(_)
TrimStart(str) ==
    IF str # << >> /\ str[1] \in WhiteSpace THEN TrimStart(Tail(str)) ELSE str

\* the number of digits str begins with
RECURSIVE DigitCount(_)
DigitCount(str) ==
    IF str # << >> /\ IsDigit(str[1]) THEN 1 + DigitCount(Tail(str)) ELSE 0

RECURSIVE DigitsValue(_)
DigitsValue(digits) ==
    IF digits = << >> THEN 0
    ELSE 10 * DigitsValue(SubSeq(digits, 1, Len(digits) - 1))
            + (digits[Len(digits)] - 48)

NaN == [nan |-> TRUE]

NumberOf(n) == [number |-> n]

\* parseInt(str, 10): white space, a sign, then as many digits as there are;
\* what follows the digits is ignored
parseInt(str) ==
    LET trimmed == TrimStart(str)
        signed == trimmed # << >> /\ trimmed[1] \in {43, 45}
        body == IF signed THEN Tail(trimmed) ELSE trimmed
        n == DigitCount(body)
        magnitude == DigitsValue(SubSeq(body, 1, n))
    IN  IF n = 0 THEN NaN
        ELSE NumberOf(IF signed /\ trimmed[1] = 45 THEN 0 - magnitude
                      ELSE magnitude)

\* the positions of the accounts whose login identifier is identifier
LoginIdMatches(accounts, identifier) ==
    { i \in DOMAIN accounts : accounts[i].loginId = identifier }

Least(S) == CHOOSE x \in S : \A y \in S : x <= y

\* store.ts, findByIdentifier, on the accounts load has returned
AccountFor(accounts, identifier) ==
    LET index == parseInt(identifier)
    IN  IF index # NaN /\ index.number >= 1 /\ index.number <= Len(accounts)
        THEN accounts[index.number]
        ELSE IF LoginIdMatches(accounts, identifier) # {}
        THEN accounts[Least(LoginIdMatches(accounts, identifier))]
        ELSE Undefined

\* the exception of update
NotFound == [thrown |-> "Account not found"]

\* a store operation: its name, the passphrase of its AccountStore, its
\* argument, the call of the file system it has reached and what it will
\* return
CallOf(op, masterPassword, arg, at, result) ==
    [op |-> op, masterPassword |-> masterPassword, arg |-> arg, at |-> at,
     result |-> result]

NoCall == CallOf("none", << >>, Undefined, "idle", Undefined)

\* no operation is under way
Idle == call.at \in {"idle", "done"}

\* the operation ends without having written
Ends(op, masterPassword, arg, outcome) ==
    /\ call' = CallOf(op, masterPassword, arg, "done", outcome)
    /\ ret' = << outcome >>
    /\ UNCHANGED storeVars

\* the salt and the nonce a write of the store or of a session draws:
\* which blocks are drawn makes no difference to the store, one pair stands
\* for all
StoreSalt == [i \in 1..SALT_LEN |-> (37 * i) % 256]
StoreIv == [i \in 1..IV_LEN |-> (11 * i) % 256]

\* store.ts, save, up to writeFileSync; chmodSync is the next step
saveWrite(accounts, masterPassword) ==
    LET encoded == encrypt(JSONstringify(accounts), masterPassword,
                           StoreSalt, StoreIv)
    IN  \E umask \in Umasks :
            storeFile' = writeFileSync(storeFile, encoded, umask)

\* store.ts, save, chmodSync; the operation that called save returns
saveChmod ==
    /\ call.at = "chmod"
    /\ storeFile' = chmodSync(storeFile, OwnerOnly)
    /\ call' = [call EXCEPT !.at = "done"]
    /\ ret' = << call.result >>
    /\ UNCHANGED << engineVars, sessionFiles, issued >>

\* the passphrase of the stores that are made with one passphrase only
StorePassphrase == << 65 >>

\* the accounts the accounts file holds
HeldIn(file) ==
    IF ~existsSync(file) THEN << >>
    ELSE LET masterPassword ==
                 CHOOSE k \in Passphrases : ~IsThrown(decrypt(file.content, k))
         IN  JSONparse(decrypt(file.content, masterPassword).value).value

\* as randomUUID, but numbering the accounts by their place in the list
lengthAsId == Len(HeldIn(storeFile)) + 1

\* randomUUID(): an id not given before; the least one stands for all
randomUUID == Least(UuidPool \ issued)

\* store.ts, add, for a store made with one of passphrases and one of drafts
add(passphrases, drafts) ==
    /\ Idle
    /\ \E masterPassword \in passphrases :
          LET accounts == load(masterPassword)
          IN  \E draft \in drafts :
                 IF IsThrown(accounts)
                 THEN Ends("add", masterPassword, draft, accounts)
                 ELSE /\ Len(accounts.value) < MaxAccounts
                      /\ UuidPool \ issued # {}
                      /\ \E createdAt \in IsoTimes :
                            LET newAccount ==
                                   [id |-> randomUUID,
                                    loginId |-> draft.loginId,
                                    loginType |-> draft.loginType,
                                    proxy |-> draft.proxy,
                                    paymentLabel |-> draft.paymentLabel,
                                    createdAt |-> createdAt,
                                    lastLoginAt |-> "null",
                                    sessionFile |-> "null"]
                            IN  /\ saveWrite(
                                     Append(accounts.value, newAccount),
                                     masterPassword)
                                /\ issued' = issued \cup {newAccount.id}
                                /\ call' = CallOf("add", masterPassword,
                                                  draft, "chmod",
                                                  Returned(newAccount))
                      /\ ret' = << >>
                      /\ UNCHANGED sessionFiles
    /\ UNCHANGED engineVars

\* store.ts, findByIdentifier
findByIdentifier(passphrases, identifiers) ==
    /\ Idle
    /\ \E masterPassword \in passphrases :
          LET accounts == load(masterPassword)
          IN  \E identifier \in identifiers :
                 Ends("findByIdentifier", masterPassword, identifier,
                      IF IsThrown(accounts) THEN accounts
                      ELSE Returned(AccountFor(accounts.value, identifier)))
    /\ UNCHANGED engineVars

\* store.ts, update
update(passphrases, updateSet) ==
    /\ Idle
    /\ \E masterPassword \in passphrases :
          LET accounts == load(masterPassword)
          IN  \E id \in UuidPool, updates \in updateSet :
                 LET arg == [id |-> id, updates |-> updates]
                 IN  IF IsThrown(accounts)
                     THEN Ends("update", masterPassword, arg, accounts)
                     ELSE IF findIndex(accounts.value, id) = 0
                     THEN Ends("update", masterPassword, arg, NotFound)
                     ELSE LET pos == findIndex(accounts.value, id)
                              merged == Merged(accounts.value[pos], updates)
                          IN  /\ saveWrite(
                                   [accounts.value EXCEPT ![pos] = merged],
                                   masterPassword)
                              /\ call' = CallOf("update", masterPassword, arg,
                                                "chmod", Returned(merged))
                              /\ ret' = << >>
                              /\ UNCHANGED << sessionFiles, issued >>
    /\ UNCHANGED engineVars

\* store.ts, remove
remove(passphrases) ==
    /\ Idle
    /\ \E masterPassword \in passphrases :
          LET accounts == load(masterPassword)
          IN  \E id \in UuidPool :
                 IF IsThrown(accounts)
                 THEN Ends("remove", masterPassword, id, accounts)
                 ELSE LET pos == findIndex(accounts.value, id)
                          unlinks ==
                              /\ pos # 0
                              /\ accounts.value[pos].sessionFile # "null"
                              /\ existsSync(sessionFiles[
                                    accounts.value[pos].sessionFile])
                      IN  /\ sessionFiles' =
                                 IF unlinks
                                 THEN [sessionFiles EXCEPT
                                         ![accounts.value[pos].sessionFile] =
                                             NoFile]
                                 ELSE sessionFiles
                          /\ saveWrite(SelectSeq(accounts.value,
                                                 LAMBDA a : a.id # id),
                                       masterPassword)
                          /\ call' = CallOf("remove", masterPassword, id,
                                            "chmod", Returned(Undefined))
                          /\ ret' = << >>
                          /\ UNCHANGED issued
    /\ UNCHANGED engineVars

\* store.ts, list
list(passphrases) ==
    /\ Idle
    /\ \E masterPassword \in passphrases :
          Ends("list", masterPassword, Undefined, load(masterPassword))
    /\ UNCHANGED engineVars

\* cli/account.ts, the login command for an account the store has found,
\* when loginToLazada succeeds: saveSession has read the storage state and
\* writes the session file
loginSaveSession(passphrases) ==
    /\ Idle
    /\ \E masterPassword \in passphrases :
          LET accounts == load(masterPassword)
          IN  \E id \in UuidPool, state \in SessionStates, umask \in Umasks :
                 /\ ~IsThrown(accounts)
                 /\ findIndex(accounts.value, id) # 0
                 /\ sessionFiles' =
                       [sessionFiles EXCEPT ![SessionPath(id)] =
                           writeFileSync(@,
                               encrypt(state, masterPassword, StoreSalt,
                                       StoreIv),
                               umask)]
                 /\ call' = CallOf("login", masterPassword, id,
                                   "chmod_session", Undefined)
    /\ ret' = << >>
    /\ UNCHANGED << engineVars, storeFile, issued >>

\* session.ts, saveSession, chmodSync; loginToLazada returns success
loginSessionChmod ==
    /\ call.at = "chmod_session"
    /\ sessionFiles' =
          [sessionFiles EXCEPT ![SessionPath(call.arg)] =
              chmodSync(@, OwnerOnly)]
    /\ call' = [call EXCEPT !.at = "record"]
    /\ UNCHANGED << engineVars, ret, storeFile, issued >>

\* cli/account.ts, the login command after the successful login: the time
\* of the login is written into the account
loginRecord ==
    /\ call.at = "record"
    /\ LET accounts == load(call.masterPassword)
       IN  IF IsThrown(accounts)
           THEN Ends("login", call.masterPassword, call.arg, accounts)
           ELSE IF findIndex(accounts.value, call.arg) = 0
           THEN Ends("login", call.masterPassword, call.arg,
                     Returned(Undefined))
           ELSE /\ \E lastLoginAt \in IsoTimes :
                      saveWrite([accounts.value EXCEPT
                                    ![findIndex(accounts.value, call.arg)]
                                        .lastLoginAt = lastLoginAt],
                                call.masterPassword)
                /\ call' = [call EXCEPT !.at = "chmod",
                                        !.result = Returned(Undefined)]
                /\ ret' = << >>
                /\ UNCHANGED << sessionFiles, issued >>
    /\ UNCHANGED engineVars

InitStore ==
    /\ EngineInit({DefaultDetection}, << "u1" >>)
    /\ call = NoCall
    /\ ret = << >>

\* the five operations of the store under either passphrase
NextStore ==
    \/ add(Passphrases, {Draft9})
    \/ findByIdentifier(Passphrases, {<< 57 >>})
    \/ update(Passphrases, {SameLabelUpdate})
    \/ remove(Passphrases)
    \/ list(Passphrases)
    \/ saveChmod

SpecStore == InitStore /\ [][NextStore]_vars

\* add, update and remove of a store with one passphrase
NextAccounts ==
    \/ add({StorePassphrase}, {Draft9, Draft1})
    \/ update({StorePassphrase}, {LabelUpdate})
    \/ remove({StorePassphrase})
    \/ saveChmod

SpecAccounts == InitStore /\ [][NextAccounts]_vars

\* accounts are added, looked up and listed
NextFind ==
    \/ add({StorePassphrase}, {Draft9, Draft1, Draft1A})
    \/ findByIdentifier({StorePassphrase}, Identifiers)
    \/ list({StorePassphrase})
    \/ saveChmod

SpecFind == InitStore /\ [][NextFind]_vars

\* the cli's add, edit and login commands on a store with one passphrase
NextEdit ==
    \/ add({StorePassphrase}, {Draft1})
    \/ update({StorePassphrase}, {LoginIdUpdate})
    \/ loginSaveSession({StorePassphrase})
    \/ loginSessionChmod
    \/ loginRecord
    \/ saveChmod

SpecEdit == InitStore /\ [][NextEdit]_vars

\* the cli's add, login and remove commands on a store with one passphrase
NextSession ==
    \/ add({StorePassphrase}, {Draft1})
    \/ remove({StorePassphrase})
    \/ loginSaveSession({StorePassphrase})
    \/ loginSessionChmod
    \/ loginRecord
    \/ saveChmod

SpecSession == InitStore /\ [][NextSession]_vars

StoreOps == {"add", "findByIdentifier", "update", "remove", "list"}

\* the accounts file exists and decrypt throws on it for this passphrase
Undecryptable(masterPassword) ==
    /\ existsSync(storeFile)
    /\ IsThrown(decrypt(readFileSync(storeFile), masterPassword))

\* C23: load returns the empty sequence when there is no accounts file; when
\* the file exists and cannot be decrypted with the store's passphrase, add,
\* findByIdentifier, update, remove and list end at once with the exception
\* of the vault, unchanged, and the accounts file stays as it was.
C23_LoadPropagatesVaultError ==
    /\ [](call.op = "list" /\ call.at = "done" /\ ~existsSync(storeFile)
            => ret = << Returned(<< >>) >>)
    /\ [][(Idle /\ call'.op \in StoreOps
                /\ Undecryptable(call'.masterPassword))
            => /\ call'.at = "done"
               /\ ret' = << decrypt(readFileSync(storeFile),
                                    call'.masterPassword) >>
               /\ IsThrown(ret'[1])
               /\ storeFile' = storeFile
               /\ sessionFiles' = sessionFiles]_vars

\* update was called with a passphrase the accounts file was not written
\* with, and has thrown the vault's exception
C23_Witness ==
    /\ call.op = "update"
    /\ call.at = "done"
    /\ existsSync(storeFile)
    /\ ret = << AuthFailure >>

\* C24: whenever the accounts file or a session file exists, its permission
\* bits are within owner read and owner write; no state between the call that
\* creates or replaces the file and the return of save or saveSession shows
\* the file with more.
C24_OwnerOnlyAlways ==
    /\ existsSync(storeFile) => storeFile.mode \subseteq OwnerOnly
    /\ \A path \in SessionPaths :
          existsSync(sessionFiles[path]) =>
             sessionFiles[path].mode \subseteq OwnerOnly

\* the ids of the accounts in a list
IdsOf(accounts) == { accounts[i].id : i \in DOMAIN accounts }

\* add has written the accounts file
AddWrites == Idle /\ call'.op = "add" /\ call'.at = "chmod"

\* C25: add(draft) on a store holding L leaves it holding L followed by one
\* new account that has the draft's fields, lastLoginAt = null and
\* sessionFile = null, and returns that account; the new id is one no account
\* has had before, so the ids in the store are pairwise distinct after any
\* sequence of add, update and remove, and the id of a removed account is
\* not given again.
C25_AddAppendsFreshAccount ==
    /\ [][AddWrites =>
            LET newAccount == call'.result.value
            IN  /\ HeldIn(storeFile') = Append(HeldIn(storeFile), newAccount)
                /\ \A f \in DOMAIN call'.arg : newAccount[f] = call'.arg[f]
                /\ newAccount.lastLoginAt = "null"
                /\ newAccount.sessionFile = "null"
                /\ newAccount.id \notin issued
                /\ newAccount.id \in issued']_vars
    /\ [][(call.op = "add" /\ call.at = "chmod")
            => /\ ret' = << call.result >>
               /\ HeldIn(storeFile') = HeldIn(storeFile)]_vars
    /\ [][issued \subseteq issued']_vars
    /\ [](IdsOf(HeldIn(storeFile)) \subseteq issued)
    /\ [](\A i, j \in DOMAIN HeldIn(storeFile) :
             i # j => HeldIn(storeFile)[i].id # HeldIn(storeFile)[j].id)

\* an account was removed and another was added after it, next to one that
\* was there before
C25_Witness ==
    /\ call.op = "add"
    /\ call.at = "done"
    /\ Len(HeldIn(storeFile)) = 2
    /\ Cardinality(issued) = 3
    /\ ret = << Returned(HeldIn(storeFile)[2]) >>

\* what loadSession returns when there is no session file
Null == [null |-> TRUE]

\* session.ts, loadSession
loadSession(accountId, masterPassword) ==
    IF ~existsSync(sessionFiles[SessionPath(accountId)]) THEN Null
    ELSE decrypt(readFileSync(sessionFiles[SessionPath(accountId)]),
                 masterPassword)

\* the accounts loginToLazada is called for
LoginIds == {1, 2}

\* the rejection of a call of the browser
PlaywrightError == [thrown |-> "playwright"]

\* what loginToLazada returns
Success == Returned([success |-> TRUE])
OtpTimeout == Returned([success |-> FALSE, error |-> "OTP timeout"])

\* the entry of ret for a writeFileSync of an account's session file
Written(accountId) == [writeFileSync |-> SessionPath(accountId)]

\* session.ts, saveSession, once context.storageState() has resolved, up to
\* writeFileSync; chmodSync is the next step
saveSessionWrite(at) ==
    \E state \in SessionStates, umask \in Umasks :
        /\ sessionFiles' =
              [sessionFiles EXCEPT ![SessionPath(call.arg)] =
                  writeFileSync(@,
                      encrypt(state, call.masterPassword, StoreSalt, StoreIv),
                      umask)]
        /\ call' = [call EXCEPT !.at = at]
        /\ ret' = Append(ret, Written(call.arg))

\* loginToLazada returns or rejects
loginEnds(outcome) ==
    /\ call' = [call EXCEPT !.at = "done", !.result = outcome]
    /\ ret' = Append(ret, outcome)

\* login.ts, loginToLazada, loadSession: a rejection of decrypt leaves the
\* function, a saved session leads to the restore, none to the fresh login
loginToLazada(passphrases, ids) ==
    /\ Idle
    /\ \E masterPassword \in passphrases, accountId \in ids :
          LET savedSessionJson == loadSession(accountId, masterPassword)
          IN  IF IsThrown(savedSessionJson)
              THEN /\ call' = CallOf("loginToLazada", masterPassword,
                                     accountId, "done", savedSessionJson)
                   /\ ret' = << savedSessionJson >>
              ELSE /\ call' = CallOf("loginToLazada", masterPassword,
                                     accountId,
                                     IF \/ savedSessionJson = Null
                                        \/ savedSessionJson.value = << >>
                                     THEN "fresh" ELSE "restore",
                                     Undefined)
                   /\ ret' = << >>
    /\ UNCHANGED << engineVars, storeVars >>

\* login.ts, the session restore up to saveSession's writeFileSync:
\* createStealthContext may reject, which leaves the function; a failure
\* inside the try, or a session that is no longer valid, closes the page
\* and the context (whose close may reject) and goes on to the fresh login
loginRestore ==
    /\ call.op = "loginToLazada"
    /\ call.at = "restore"
    /\ \E outcome \in {"rejected", "not restored", "valid"} :
          CASE outcome = "rejected" ->
                  loginEnds(PlaywrightError) /\ UNCHANGED storeVars
            [] outcome = "not restored" ->
                  /\ call' = [call EXCEPT !.at = "fresh"]
                  /\ UNCHANGED << ret, storeVars >>
            [] outcome = "valid" ->
                  /\ saveSessionWrite("restore_chmod")
                  /\ UNCHANGED << storeFile, issued >>
    /\ UNCHANGED engineVars

\* login.ts, the session restore from saveSession's chmodSync: return
\* { success: true }, then the finally blocks; a rejection of page.close()
\* replaces the return and is caught by the catch of the restore, a
\* rejection of context.close() leaves the function
loginRestoreReturn ==
    /\ call.op = "loginToLazada"
    /\ call.at = "restore_chmod"
    /\ sessionFiles' =
          [sessionFiles EXCEPT ![SessionPath(call.arg)] =
              chmodSync(@, OwnerOnly)]
    /\ \E outcome \in {"returned", "page.close rejected",
                       "context.close rejected"} :
          CASE outcome = "returned" -> loginEnds(Success)
            [] outcome = "page.close rejected" ->
                  /\ call' = [call EXCEPT !.at = "fresh"]
                  /\ ret' = ret
            [] outcome = "context.close rejected" ->
                  loginEnds(PlaywrightError)
    /\ UNCHANGED << engineVars, storeFile, issued >>

\* login.ts, the fresh login up to saveSession's writeFileSync: a rejection
\* of any awaited call leaves the function after context.close(); the race
\* ends with the login seen or with the 120 s timeout
loginFresh ==
    /\ call.op = "loginToLazada"
    /\ call.at = "fresh"
    /\ \E outcome \in {"rejected", "timeout", "success"} :
          CASE outcome = "rejected" ->
                  loginEnds(PlaywrightError) /\ UNCHANGED storeVars
            [] outcome = "timeout" ->
                  loginEnds(OtpTimeout) /\ UNCHANGED storeVars
            [] outcome = "success" ->
                  /\ saveSessionWrite("fresh_chmod")
                  /\ UNCHANGED << storeFile, issued >>
    /\ UNCHANGED engineVars

\* login.ts, the fresh login from saveSession's chmodSync: return
\* { success: true }, then context.close(), whose rejection replaces it
loginFreshReturn ==
    /\ call.op = "loginToLazada"
    /\ call.at = "fresh_chmod"
    /\ sessionFiles' =
          [sessionFiles EXCEPT ![SessionPath(call.arg)] =
              chmodSync(@, OwnerOnly)]
    /\ \E outcome \in {"returned", "rejected"} :
          IF outcome = "returned" THEN loginEnds(Success)
          ELSE loginEnds(PlaywrightError)
    /\ UNCHANGED << engineVars, storeFile, issued >>

\* calls of loginToLazada, one after the other
NextLogin ==
    \/ loginToLazada(Passphrases, LoginIds)
    \/ loginRestore
    \/ loginRestoreReturn
    \/ loginFresh
    \/ loginFreshReturn

SpecLogin == InitStore /\ [][NextLogin]_vars

\* the largest detection.maxRetries of the single-shot runs
MaxRetriesLimit == 2

\* the configurations of the single-shot runs: detection.maxRetries (not
\* negative, config.ts), the number of urls (not zero, index.ts:19) and
\* proxy.enabled
ShotConfigs ==
    [maxRetries : 0..MaxRetriesLimit, cooldownMs : {60000}, urls : {1, 2},
     proxyEnabled : BOOLEAN]

\* index.ts, main, at the top of the browsing loop (line 79): the browser is
\* launched, the first context is made, retries = 0. events counts the
\* detection events since the last clean fetch and timer is the sleep that
\* is under way
ShotStart(cfg) ==
    [op |-> "main", at |-> "loop", config |-> cfg, running |-> TRUE,
     browser |-> "open", context |-> "open", retries |-> 0, sessionId |-> 1,
     url |-> 1, timer |-> 0, events |-> 0]

InitShot ==
    /\ EngineInit({DefaultDetection}, << "u1" >>)
    /\ call \in { ShotStart(cfg) : cfg \in ShotConfigs }
    /\ ret = << >>

\* as MayRetry, but letting the counter pass the limit
MayRetryAtLimit(retries, maxRetries) == retries <= maxRetries

\* index.ts:96 and :121, retries < config.detection.maxRetries
MayRetry(retries, maxRetries) == retries < maxRetries

\* crypto.randomUUID() for the proxy session: an id that is not the current
\* one
NewSessionId(current) == 3 - current

\* index.ts:80-149, one url of the loop: the delay, page.goto and
\* checkDetection. A navigation error and a detection close the context and
\* either count a retry and go to the cooldown or stop the loop; a clean
\* fetch resets the counter and goes on with the next url, the first one
\* again after the last; a rejection of checkDetection, randomScroll or
\* extractProductData leaves main
shotFetch ==
    /\ call.op = "main"
    /\ call.at = "loop"
    /\ \E outcome \in {"clean", "navigation failed", "detected", "rejected"} :
          CASE outcome = "clean" ->
                  call' = [call EXCEPT
                              !.retries = 0,
                              !.events = 0,
                              !.url = IF @ = call.config.urls THEN 1
                                      ELSE @ + 1]
            [] outcome \in {"navigation failed", "detected"} ->
                  IF MayRetry(call.retries, call.config.maxRetries)
                  THEN call' = [call EXCEPT
                                   !.context = "closed",
                                   !.retries = @ + 1,
                                   !.events = @ + 1,
                                   !.timer = call.config.cooldownMs,
                                   !.at = "cooldown"]
                  ELSE call' = [call EXCEPT
                                   !.context = "closed",
                                   !.events = @ + 1,
                                   !.running = FALSE,
                                   !.at = "cleanup"]
            [] outcome = "rejected" ->
                  call' = [call EXCEPT !.at = "fatal"]
    /\ UNCHANGED << engineVars, ret, storeVars >>

\* index.ts:99-107 and :124-132, the cooldown has passed: a new proxy
\* session, a fresh context, and the url loop starts again; a rejection of
\* freshContext leaves main
shotCooldown ==
    /\ call.op = "main"
    /\ call.at = "cooldown"
    /\ \E created \in BOOLEAN :
          call' = [call EXCEPT
                      !.timer = 0,
                      !.sessionId = IF call.config.proxyEnabled
                                    THEN NewSessionId(@) ELSE @,
                      !.context = IF created THEN "open" ELSE @,
                      !.url = IF created THEN 1 ELSE @,
                      !.at = IF created THEN "loop" ELSE "fatal"]
    /\ UNCHANGED << engineVars, ret, storeVars >>

\* index.ts:156-162, the cleanup after the loop
shotCleanup ==
    /\ call.op = "main"
    /\ call.at = "cleanup"
    /\ call' = [call EXCEPT !.context = "closed", !.browser = "null",
                            !.at = "done"]
    /\ UNCHANGED << engineVars, ret, storeVars >>

\* index.ts:27-38 and :165-168, shutdown: on SIGINT or SIGTERM while main is
\* waiting, and from the catch of main
shutdown ==
    /\ call.op = "main"
    /\ call.at \in {"loop", "cooldown", "cleanup", "fatal"}
    /\ call' = [call EXCEPT !.running = FALSE, !.context = "closed",
                            !.browser = "null", !.timer = 0,
                            !.at = "exited"]
    /\ UNCHANGED << engineVars, ret, storeVars >>

NextShot ==
    \/ shotFetch
    \/ shotCooldown
    \/ shotCleanup
    \/ shutdown

SpecShot == InitShot /\ [][NextShot]_vars

\* the cleanup is straight-line code that the event loop runs to its end
SpecShotFair == SpecShot /\ WF_vars(shotCleanup)

\* str is the decimal text of a natural number
IsIntegerText(str) == str # << >> /\ \A i \in DOMAIN str : IsDigit(str[i])

\* C26: findByIdentifier(s) over a store holding n accounts returns the i-th
\* account when s is an integer i with 1 <= i <= n; otherwise it returns the
\* account whose login identifier is exactly s, or nothing when there is
\* none; the store is not modified.
C26_PositionThenExactMatch ==
    [][(Idle /\ call'.op = "findByIdentifier") =>
        LET accounts == HeldIn(storeFile)
            s == call'.arg
        IN  /\ call'.at = "done"
            /\ storeFile' = storeFile
            /\ sessionFiles' = sessionFiles
            /\ Len(ret') = 1
            /\ IF IsIntegerText(s) /\ DigitsValue(s) >= 1
                     /\ DigitsValue(s) <= Len(accounts)
               THEN ret'[1] = Returned(accounts[DigitsValue(s)])
               ELSE IF LoginIdMatches(accounts, s) # {}
               THEN \E i \in LoginIdMatches(accounts, s) :
                       ret'[1] = Returned(accounts[i])
               ELSE ret'[1] = Returned(Undefined)]_vars

\* C27: update(id, fields) with an id that is not in the store fails with
\* the not-found error and leaves the accounts file as it was; with an id
\* that is in the store it replaces the given fields of that account, and
\* only those, in the accounts file: the account's other fields, every other
\* account and the order of the list stay as they were, and the changed
\* account is returned.
C27_UpdateMergesOrFails ==
    /\ [][(Idle /\ call'.op = "update") =>
            LET before == HeldIn(storeFile)
                after == HeldIn(storeFile')
                id == call'.arg.id
                fields == call'.arg.updates
            IN  /\ sessionFiles' = sessionFiles
                /\ IF id \notin IdsOf(before)
                   THEN /\ call'.at = "done"
                        /\ ret' = << NotFound >>
                        /\ storeFile' = storeFile
                   ELSE /\ call'.at = "chmod"
                        /\ Len(after) = Len(before)
                        /\ \A i \in DOMAIN before :
                              IF before[i].id = id
                              THEN /\ call'.result = Returned(after[i])
                                   /\ DOMAIN after[i] = DOMAIN before[i]
                                   /\ \A f \in DOMAIN before[i] :
                                         after[i][f] =
                                            IF f \in DOMAIN fields
                                            THEN fields[f]
                                            ELSE before[i][f]
                              ELSE after[i] = before[i]]_vars
    /\ [][(call.op = "update" /\ call.at = "chmod")
            => /\ ret' = << call.result >>
               /\ HeldIn(storeFile') = HeldIn(storeFile)]_vars

\* the second of two accounts, logged in before, has been updated
C27_Witness ==
    /\ call.op = "update"
    /\ call.at = "done"
    /\ Len(HeldIn(storeFile)) = 2
    /\ ret = << Returned(HeldIn(storeFile)[2]) >>
    /\ HeldIn(storeFile)[2].lastLoginAt = "t1"
    /\ HeldIn(storeFile)[2].loginId = LoginIdUpdate.loginId
    /\ HeldIn(storeFile)[2].proxy = "null"
    /\ HeldIn(storeFile)[1].loginId = Draft1.loginId

\* C28: remove(id) of an account whose session has been saved by saveSession
\* leaves the store without that account and the disk without its session
\* file; the other accounts, their order and their session files are as
\* before.
C28_RemoveDeletesSession ==
    [][(/\ Idle
        /\ call'.op = "remove"
        /\ call'.arg \in IdsOf(HeldIn(storeFile))
        /\ existsSync(sessionFiles[SessionPath(call'.arg)]))
       => /\ HeldIn(storeFile') =
                SelectSeq(HeldIn(storeFile), LAMBDA a : a.id # call'.arg)
          /\ ~existsSync(sessionFiles'[SessionPath(call'.arg)])
          /\ \A path \in SessionPaths \ {SessionPath(call'.arg)} :
                sessionFiles'[path] = sessionFiles[path]]_vars

\* C29: loginToLazada returns success = true only after saveSession has
\* written the account's session file during the same call, on the restore
\* path and on the fresh-login path; when it returns success = false it has
\* not written the session file.
C29_SuccessOnlyAfterSave ==
    (call.op = "loginToLazada" /\ call.at = "done") =>
        /\ call.result = Success =>
              /\ \E i \in DOMAIN ret : ret[i] = Written(call.arg)
              /\ loadSession(call.arg, call.masterPassword)
                    \in { Returned(state) : state \in SessionStates }
              /\ sessionFiles[SessionPath(call.arg)].mode = OwnerOnly
        /\ call.result = OtpTimeout =>
              \A i \in DOMAIN ret : ret[i] # Written(call.arg)

\* a detection event or a navigation error has been handled
ShotEvent == call.at = "loop" /\ call'.events = call.events + 1

\* C30: in single-shot mode retries never exceeds detection.maxRetries. A
\* detection event or navigation error while retries < maxRetries counts one
\* retry and sleeps cooldownMs, after which there is a fresh context and the
\* url loop starts again at its first url; a clean fetch sets retries to 0;
\* an event when retries = maxRetries stops the loop, which is then after
\* exactly maxRetries + 1 events in a row, and the run ends with the context
\* and the browser closed.
C30_RetryLimit ==
    /\ [](call.retries <= call.config.maxRetries)
    /\ [][(ShotEvent /\ call.retries < call.config.maxRetries)
            => /\ call'.retries = call.retries + 1
               /\ call'.at = "cooldown"
               /\ call'.timer = call.config.cooldownMs
               /\ call'.running]_vars
    /\ [][(call.at = "cooldown" /\ call'.at = "loop")
            => /\ call.context = "closed"
               /\ call'.context = "open"
               /\ call'.url = 1
               /\ call'.retries = call.retries]_vars
    /\ [][(call.at = "loop" /\ call'.at = "loop") => call'.retries = 0]_vars
    /\ [][(ShotEvent /\ call.retries = call.config.maxRetries)
            => /\ ~call'.running
               /\ call'.at = "cleanup"
               /\ call'.events = call.config.maxRetries + 1]_vars
    /\ [](call.at = "cleanup" => call.events = call.config.maxRetries + 1)
    /\ [](call.at = "done"
            => /\ call.events = call.config.maxRetries + 1
               /\ call.context = "closed"
               /\ call.browser = "null")
    /\ (call.at = "cleanup")
          ~> (call.at \in {"done", "exited"} /\ call.context = "closed"
                /\ call.browser = "null")

\* the run has ended at the limit of a configuration that allows retries
C30_Witness ==
    /\ call.op = "main"
    /\ call.at = "done"
    /\ call.config.maxRetries = MaxRetriesLimit
    /\ call.retries = MaxRetriesLimit
    /\ call.events = MaxRetriesLimit + 1
    /\ call.url = 1

\* C31: when a cooldown has completed, the engine schedules a whole new
\* cycle: the cycle counter goes up by one and the next fetch is of the first
\* target of the configured order, not of the target after the one that was
\* detected; a target is reached only with every target before it fetched
\* cleanly in the same, later cycle.
C31_CooldownRestartsCycle ==
    /\ [][pc = "hde_fresh" /\ pc' # pc =>
            /\ pc' \in {"scheduled", "returned", "rejected"}
            /\ idx' = 0
            /\ cycleCount' = cycleCount
            /\ fetched' = fetched]_vars
    /\ [][pc = "scheduled" /\ abortedAt # 0 /\ pc' \notin {pc, "returned"} =>
            /\ cycleCount' = cycleCount + 1
            /\ fetched' = {}
            /\ abortedAt' = 0
            /\ pc' \in {"delay", "rot_closepage"}
            /\ pc' = "delay" => idx' = 1]_vars
    /\ [][pc = "rot_fresh" /\ pc' = "delay" =>
            idx' = 1 /\ fetched = {}]_vars
    /\ [](pc \in {"delay", "goto"} =>
            /\ abortedAt = 0
            /\ 1..(idx - 1) \subseteq fetched)

\* the only fetch so far, of the first of two targets, ended in a cooldown
\* that has completed; the second cycle is waiting to fetch the first target
C31_Witness ==
    /\ NumUrls = 2
    /\ fetchCount = 1
    /\ cdLog = CooldownSteps(FALSE)
    /\ cycleCount = 2
    /\ pc = "delay"
    /\ idx = 1

\* a step of the poll flow inside handleDetectionEvent, its entry included
HandlingStep ==
    /\ pc' # pc
    /\ DetectionStep \/ pc \in HdePcs

\* C32: handling a detection event changes consecutiveFailures,
\* currentCooldownMs, the daily error counter, the session id and the page
\* and context only: the StockState table, the alert-cooldown table, the
\* daily restock and sold-out counters and the history log are as they were,
\* and so are the cycle counter and the running flag.
C32_DetectionFrame ==
    [][HandlingStep =>
        /\ stateMap' = stateMap
        /\ alertCooldowns' = alertCooldowns
        /\ lastRestockAlertAt' = lastRestockAlertAt
        /\ dailyRestocks' = dailyRestocks
        /\ dailySoldOuts' = dailySoldOuts
        /\ history' = history
        /\ historyFile' = historyFile
        /\ cycleCount' = cycleCount
        /\ running' = running
        /\ cronTask' = cronTask]_vars

\* a detection on the second target has been handled to its end in a run that
\* had seen a restock with its alert before
C32_Witness ==
    /\ pc = "scheduled"
    /\ abortedAt = 2
    /\ cdLog = CooldownSteps(FALSE)
    /\ urls[2] \in DOMAIN stateMap
    /\ DOMAIN alertCooldowns # {}
    /\ dailyRestocks >= 1
    /\ historyFile # << >>

\* the counts carried by the digest sent last
LastReported ==
    << digests[Len(digests)].restocksDetected,
       digests[Len(digests)].soldOuts,
       digests[Len(digests)].errorsEncountered >>

\* C33: every restock, sold-out and detection event counted by the poll loop
\* is reported in exactly one digest: the reset that follows a send clears
\* the counts that the digest carried and no other, so an event counted while
\* the send was pending stays counted for the next digest, and an event that
\* was reported is not reported again.
C33_DigestCountsEachEventOnce ==
    [][(dg = "sending" /\ dg' = "idle") =>
          \A i \in 1..3 : DailyCounters'[i] = DailyCounters[i] - LastReported[i]]_vars

\* once running is false no navigation is started
NoNavigationAfterShutdown ==
    [][~running => (pc' = "goto" => pc = "goto") /\ fetchCount' = fetchCount]_vars

\* once running is false no browsing context and no page is created
NoContextAfterShutdown ==
    [][~running =>
          /\ liveContexts' <= liveContexts
          /\ context' = "open" => context = "open"
          /\ page' = "open" => page = "open"]_vars

\* no context is open when the process has exited
AllClosedAtExit == sd = "exited" => liveContexts = 0

\* C34: once shutdown has begun (running is false) the engine starts no
\* navigation and creates no browsing context or page, whichever delay or
\* cooldown sleep elapses while shutdown is closing resources, and every
\* context the engine created is closed when the process exits.
C34_ShutdownQuiesces ==
    /\ NoNavigationAfterShutdown
    /\ NoContextAfterShutdown
    /\ []AllClosedAtExit

\* no two accounts of the list have the same login identifier
DistinctLoginIds(accounts) ==
    \A i, j \in DOMAIN accounts :
        accounts[i].loginId = accounts[j].loginId => i = j

\* C35: every stored account is resolved by its own login identifier: when
\* the login identifiers of the stored accounts are pairwise distinct,
\* findByIdentifier(a.loginId) returns a for every stored account a, at
\* whatever position of the list a is.
C35_ResolvableByLoginId ==
    [][(Idle /\ call'.op = "findByIdentifier"
             /\ DistinctLoginIds(HeldIn(storeFile))) =>
          \A i \in DOMAIN HeldIn(storeFile) :
              HeldIn(storeFile)[i].loginId = call'.arg =>
                  ret' = << Returned(HeldIn(storeFile)[i]) >>]_vars

(***************************************************************************)
(* The account login command, cli/account.ts:194-246, with loginToLazada   *)
(* followed through the resources it opens and the timers it starts: the   *)
(* browsing contexts, the 120 s timer of the race and the polling loop of  *)
(* waitForLoginSuccess.  Time is counted in sleeps of the polling loop.    *)
(* close() takes effect on the object it is called on, also when it        *)
(* rejects.                                                                *)
(***************************************************************************)
\* polls of waitForLoginSuccess the model follows after the timeout
MaxPollsAfter == 3

\* login.ts:155, the delay of the timeout timer
OtpTimeoutMs == 120000

\* login.ts:187, the sleep between two looks at the page's url
PollIntervalMs == 500

\* the sleep of the polling loop that ends when the timeout timer is due
OtpTimeoutPolls == OtpTimeoutMs \div PollIntervalMs

\* the command is entered for an account that has a saved session or none
LoginStart(saved) ==
    [op |-> "login", saved |-> saved, at |-> "launch", browser |-> "null",
     contexts |-> 0, timer |-> "unset", poller |-> "none", polls |-> 0,
     result |-> Undefined]

InitLoginCommand ==
    /\ EngineInit({DefaultDetection}, << "u1" >>)
    /\ call \in { LoginStart(saved) : saved \in BOOLEAN }
    /\ ret = << >>

\* loginToLazada returns or rejects to the command
loginReturns(outcome) ==
    call' = [call EXCEPT !.at = "returned", !.result = outcome]

\* cli/account.ts:219-221 and login.ts:18-19, launchStealthBrowser has
\* settled: loginToLazada is called and takes the restore path when
\* loadSession gives a session
loginLaunch ==
    /\ call.op = "login"
    /\ call.at = "launch"
    /\ \E launched \in BOOLEAN :
          IF launched
          THEN call' = [call EXCEPT !.browser = "open",
                           !.at = IF call.saved THEN "restore_ctx"
                                  ELSE "fresh_ctx"]
          ELSE call' = [call EXCEPT !.at = "ended",
                                    !.result = PlaywrightError]
    /\ UNCHANGED << engineVars, ret, storeVars >>

\* login.ts:20, createStealthContext of the restore path has settled
loginRestoreContext ==
    /\ call.op = "login"
    /\ call.at = "restore_ctx"
    /\ \E created \in BOOLEAN :
          IF created
          THEN call' = [call EXCEPT !.contexts = @ + 1, !.at = "restore_try"]
          ELSE loginReturns(PlaywrightError)
    /\ UNCHANGED << engineVars, ret, storeVars >>

\* login.ts:21-45, the try of the restore path and its finally blocks: a
\* valid session returns success, anything else falls through to the fresh
\* login; context.close() closes the context, and its rejection leaves the
\* function
loginRestoreTry ==
    /\ call.op = "login"
    /\ call.at = "restore_try"
    /\ \E outcome \in {"valid", "not restored", "context.close rejected"} :
          CASE outcome = "valid" ->
                  call' = [call EXCEPT !.contexts = @ - 1,
                                       !.at = "returned",
                                       !.result = Success]
            [] outcome = "not restored" ->
                  call' = [call EXCEPT !.contexts = @ - 1,
                                       !.at = "fresh_ctx"]
            [] outcome = "context.close rejected" ->
                  call' = [call EXCEPT !.contexts = @ - 1,
                                       !.at = "returned",
                                       !.result = PlaywrightError]
    /\ UNCHANGED << engineVars, ret, storeVars >>

\* login.ts:49, createStealthContext of the fresh login has settled
loginFreshContext ==
    /\ call.op = "login"
    /\ call.at = "fresh_ctx"
    /\ \E created \in BOOLEAN :
          IF created
          THEN call' = [call EXCEPT !.contexts = @ + 1, !.at = "fresh_form"]
          ELSE loginReturns(PlaywrightError)
    /\ UNCHANGED << engineVars, ret, storeVars >>

\* login.ts:51-156, the login form up to the race: a rejection of an
\* awaited call goes to the finally block; otherwise waitForLoginSuccess
\* is called, looks at the url a first time and sleeps, and the timeout
\* timer is set
loginFreshForm ==
    /\ call.op = "login"
    /\ call.at = "fresh_form"
    /\ \E outcome \in {"rejected", "otp sent"} :
          IF outcome = "rejected"
          THEN call' = [call EXCEPT !.at = "fresh_close",
                                    !.result = PlaywrightError]
          ELSE call' = [call EXCEPT !.at = "race", !.poller = "polling",
                                    !.timer = "armed", !.polls = 0]
    /\ UNCHANGED << engineVars, ret, storeVars >>

\* login.ts:172-188, a sleep of the polling loop has passed and the url is
\* still one of the login pages, or cannot be read: the loop sleeps again.
\* The timeout timer, set before that sleep, runs first when it is due.
loginPollSleeps ==
    /\ call.op = "login"
    /\ call.poller = "polling"
    /\ call.polls + 1 = OtpTimeoutPolls => call.timer # "armed"
    /\ call.polls < OtpTimeoutPolls + MaxPollsAfter
    /\ call' = [call EXCEPT !.polls = @ + 1]
    /\ UNCHANGED << engineVars, ret, storeVars >>

\* login.ts:174-182, the polling loop finds the page of a logged-in user
\* and returns: the race, if it is still on, is won
loginPollSucceeds ==
    /\ call.op = "login"
    /\ call.poller = "polling"
    /\ call.contexts > 0
    /\ call' = [call EXCEPT !.poller = "returned",
                            !.at = IF @ = "race" THEN "fresh_save" ELSE @]
    /\ UNCHANGED << engineVars, ret, storeVars >>

\* login.ts:155, the timeout timer fires: the race, if it is still on, ends
\* with 'timeout' and loginToLazada goes to return the timeout result
\* (login.ts:163)
loginTimerFires ==
    /\ call.op = "login"
    /\ call.timer = "armed"
    /\ call.poller = "polling" => call.polls + 1 >= OtpTimeoutPolls
    /\ call' = [call EXCEPT !.timer = "fired",
                            !.at = IF @ = "race" THEN "fresh_close" ELSE @,
                            !.result = IF call.at = "race" THEN OtpTimeout
                                       ELSE @]
    /\ UNCHANGED << engineVars, ret, storeVars >>

\* login.ts:158-161, saveSession has settled
loginFreshSave ==
    /\ call.op = "login"
    /\ call.at = "fresh_save"
    /\ \E saved \in BOOLEAN :
          call' = [call EXCEPT !.at = "fresh_close",
                               !.result = IF saved THEN Success
                                          ELSE PlaywrightError]
    /\ UNCHANGED << engineVars, ret, storeVars >>

\* login.ts:164-166, the finally of the fresh login: context.close(), whose
\* rejection replaces the result
loginFreshClose ==
    /\ call.op = "login"
    /\ call.at = "fresh_close"
    /\ \E closed \in BOOLEAN :
          call' = [call EXCEPT !.contexts = @ - 1,
                               !.at = "returned",
                               !.result = IF closed THEN @
                                          ELSE PlaywrightError]
    /\ UNCHANGED << engineVars, ret, storeVars >>

\* cli/account.ts:222-243, the command reports the result
loginReport ==
    /\ call.op = "login"
    /\ call.at = "returned"
    /\ call' = [call EXCEPT !.at = "browser_close"]
    /\ ret' = Append(ret, call.result)
    /\ UNCHANGED << engineVars, storeVars >>

\* cli/account.ts:244-246, browser.close() has settled and the action of the
\* command returns
loginBrowserClose ==
    /\ call.op = "login"
    /\ call.at = "browser_close"
    /\ call' = [call EXCEPT !.browser = "closed", !.contexts = 0,
                            !.at = "ended"]
    /\ UNCHANGED << engineVars, ret, storeVars >>

\* cli/index.ts:44, the program has run the command: the process ends when
\* no timer is pending
loginProcessEnds ==
    /\ call.op = "login"
    /\ call.at = "ended"
    /\ call.timer # "armed"
    /\ call.poller # "polling"
    /\ call' = [call EXCEPT !.at = "exited"]
    /\ UNCHANGED << engineVars, ret, storeVars >>

NextLoginCommand ==
    \/ loginLaunch
    \/ loginRestoreContext
    \/ loginRestoreTry
    \/ loginFreshContext
    \/ loginFreshForm
    \/ loginPollSleeps
    \/ loginPollSucceeds
    \/ loginTimerFires
    \/ loginFreshSave
    \/ loginFreshClose
    \/ loginReport
    \/ loginBrowserClose
    \/ loginProcessEnds

SpecLoginCommand == InitLoginCommand /\ [][NextLoginCommand]_vars

\* every context loginToLazada created is closed when it returns
ContextsClosedAtReturn == call.at = "returned" => call.contexts = 0

\* C36: when loginToLazada returns, with success, with the OTP timeout or
\* with an exception, every browsing context it created is closed, the
\* polling loop of waitForLoginSuccess has ended and the timeout timer is no
\* longer pending.
C36_NothingLeftRunning ==
    (call.op = "login" /\ call.at = "returned") =>
        /\ call.contexts = 0
        /\ call.poller # "polling"
        /\ call.timer # "armed"

(***************************************************************************)
(* The StockState table with every field of its entries, as the initial    *)
(* status pass and the poll loop write it.  The clock is Date.now(); it     *)
(* may move on between two readings.                                       *)
(***************************************************************************)
\* the latest reading of the clock the model follows
MaxClock == 4

TableUrls == << "u1", "u2" >>

\* new Date().toISOString() at clock reading t
toISOString(t) == [iso |-> t]

\* state.ts:3-10, a StockState with its time stamps (title and price are
\* carried along unread)
StampedState(status, lastChecked, lastTransition) ==
    [status |-> status, price |-> "null", lastChecked |-> lastChecked,
     lastTransition |-> lastTransition]

\* as NewStateFor, but stamping lastTransition at every poll
NewStateForStampingAlways(previous, status, checkedAt, transitionAt) ==
    StampedState(status, toISOString(checkedAt), toISOString(transitionAt))

\* poller.ts:197-254, the entry that a clean poll stores: previous is
\* stateMap.get(url) ?? null, checkedAt the clock when newState is built and
\* transitionAt the clock when a transition is stamped
NewStateFor(previous, status, checkedAt, transitionAt) ==
    LET newState ==
            StampedState(status, toISOString(checkedAt),
                         IF previous = NullState THEN Null
                         ELSE previous.lastTransition)
        transition == detectTransition(previous, newState)
    IN  IF transition \in {"restock", "sold_out"}
        THEN [newState EXCEPT !.lastTransition = toISOString(transitionAt)]
        ELSE newState

InitTable ==
    /\ EngineInit({DefaultDetection}, TableUrls)
    /\ call = [op |-> "startMonitoring", at |-> "init", idx |-> 1,
               stateMap |-> EmptyMap, now |-> 0]
    /\ ret = << >>

\* the url loop goes on with the next url, or starts again at the first
NextIdx(i) == IF i = Len(TableUrls) THEN 1 ELSE i + 1

\* poller.ts:83-113, one url of the initial status pass: the entry of a page
\* that was read, with lastTransition null, or nothing when the read failed
TableInitialCheck ==
    /\ call.op = "startMonitoring"
    /\ call.at = "init"
    /\ \E t \in call.now..(call.now + 1) :
          /\ t <= MaxClock
          /\ \/ \E status \in ObservedStatus :
                   /\ call' = [call EXCEPT
                                  !.stateMap = MapSet(@, TableUrls[call.idx],
                                      StampedState(status, toISOString(t),
                                                   Null)),
                                  !.now = t,
                                  !.idx = NextIdx(@),
                                  !.at = IF call.idx = Len(TableUrls)
                                         THEN "poll" ELSE @]
                   /\ ret' = << [url |-> TableUrls[call.idx],
                                 outcome |-> "initial", status |-> status] >>
             \/ /\ call' = [call EXCEPT
                               !.now = t,
                               !.idx = NextIdx(@),
                               !.at = IF call.idx = Len(TableUrls)
                                      THEN "poll" ELSE @]
                /\ ret' = << [url |-> TableUrls[call.idx],
                              outcome |-> "failed", status |-> "unknown"] >>
    /\ UNCHANGED << engineVars, storeVars >>

\* poller.ts:163-255, one url of the poll loop: a clean poll stores the new
\* entry of the url; a failed navigation or a detection page leaves the
\* table to handleDetectionEvent, which does not touch it, and the next
\* cycle starts at the first url
TablePoll ==
    /\ call.op = "startMonitoring"
    /\ call.at = "poll"
    /\ \E checkedAt \in call.now..(call.now + 1) :
       \E transitionAt \in checkedAt..(checkedAt + 1) :
          /\ transitionAt <= MaxClock
          /\ \/ \E status \in ObservedStatus :
                   LET url == TableUrls[call.idx]
                       previous == MapGet(call.stateMap, url, NullState)
                   IN  /\ call' = [call EXCEPT
                                      !.stateMap = MapSet(@, url,
                                          NewStateFor(previous, status,
                                              checkedAt, transitionAt)),
                                      !.now = transitionAt,
                                      !.idx = NextIdx(@)]
                       /\ ret' = << [url |-> url, outcome |-> "clean",
                                     status |-> status] >>
             \/ /\ transitionAt = checkedAt
                /\ call' = [call EXCEPT !.now = checkedAt, !.idx = 1]
                /\ ret' = << [url |-> TableUrls[call.idx],
                              outcome |-> "detected",
                              status |-> "unknown"] >>
    /\ UNCHANGED << engineVars, storeVars >>

NextTable ==
    \/ TableInitialCheck
    \/ TablePoll

SpecTable == InitTable /\ [][NextTable]_vars

\* the step is a clean poll of url
CleanPollOf(url) ==
    /\ call.at = "poll"
    /\ ret' # ret \/ call' # call
    /\ ret'[1].outcome = "clean"
    /\ ret'[1].url = url

\* the poll that found `status` made the url buyable or not buyable again,
\* the first sight of a buyable url included
Flipped(previous, status) ==
    IF previous = NullState THEN status = "in_stock"
    ELSE (previous.status = "in_stock") # (status = "in_stock")

\* C37: a clean poll of a target overwrites its StockState entry with the
\* status that was observed and a lastChecked read from the clock during the
\* poll; lastTransition is a clock reading of the poll exactly when the poll
\* is a restock or sold_out transition, and is otherwise the lastTransition
\* of the previous entry (null when there was none); the entries of the
\* other targets are unchanged.
C37_CleanPollEntry ==
    [][\A i \in DOMAIN TableUrls :
          CleanPollOf(TableUrls[i]) =>
             LET url == TableUrls[i]
                 previous == MapGet(call.stateMap, url, NullState)
                 entry == call'.stateMap[url]
             IN  /\ DOMAIN call'.stateMap = DOMAIN call.stateMap \cup {url}
                 /\ entry.status = ret'[1].status
                 /\ \E t \in call.now..call'.now :
                        entry.lastChecked = toISOString(t)
                 /\ IF Flipped(previous, ret'[1].status)
                    THEN \E t \in call.now..call'.now :
                            entry.lastTransition = toISOString(t)
                    ELSE entry.lastTransition =
                            (IF previous = NullState THEN Null
                             ELSE previous.lastTransition)
                 /\ \A other \in DOMAIN call.stateMap \ {url} :
                        call'.stateMap[other] = call.stateMap[other]]_vars

\* u1 was restocked at an earlier poll and has now been polled again with no
\* transition: the entry keeps the time of the restock and has a later
\* lastChecked, and u2 has its entry of the initial pass
C37_Witness ==
    /\ call.op = "startMonitoring"
    /\ call.at = "poll"
    /\ ret = << [url |-> "u1", outcome |-> "clean", status |-> "in_stock"] >>
    /\ DOMAIN call.stateMap = {"u1", "u2"}
    /\ call.stateMap["u1"].status = "in_stock"
    /\ call.stateMap["u1"].lastTransition = toISOString(2)
    /\ call.stateMap["u1"].lastChecked = toISOString(4)
    /\ call.stateMap["u2"].lastTransition = Null
    /\ call.stateMap["u2"].lastChecked = toISOString(0)

====
